---- MODULE Spec2Model ----
(***************************************************************************)
(* Worker lifecycle of the pegasus engine (worker.rs): construction,       *)
(* plan installation, the cooperative execute()/check_ready() steps, the   *)
(* scoped resource tables and the drop path, for the peers of one job that *)
(* share one peer guard, one result sink and one cancel hook.              *)
(*                                                                         *)
(* peer_guard is an AtomicUsize.  It is held here as the two's-complement  *)
(* reading of the usize (usize::MAX is -1), so that the wrapping fetch_sub *)
(* on zero is g - 1 and "underflow" is a negative value; the comparisons   *)
(* with 0 and 1 made by the code are unaffected by the reading.            *)
(***************************************************************************)
EXTENDS Integers, Sequences, FiniteSets, TLC

\* ---- bounds of the model ------------------------------------------------
MaxPeers == 2
MaxCalls == 3
MaxTime == 1

\* ---- small input sets ---------------------------------------------------
ResTypes == {"R"}
ResKeys == {"k"}

VARIABLES
    total_peers,      \* WorkerId.total_peers, the same for every peer
    time_limit,       \* JobConf.time_limit
    now,              \* the clock read by Instant::now() / elapsed()
    pc,               \* per worker: "unborn", "live" or "dropped"
    task,             \* Worker.task: "Empty" or "Dataflow"
    is_finished,      \* Worker.is_finished
    start,            \* Worker.start
    resources,        \* Worker.resources (the type ids it holds)
    keyed_resources,  \* Worker.keyed_resources (the keys it holds)
    ambient,          \* the thread-local typed resource slot
    ambient_keyed,    \* the thread-local keyed resource slot
    peer_guard,       \* the shared AtomicUsize
    cancel_hook,      \* the sink's shared AtomicBool
    cancel_map,       \* TRUE while JOB_CANCEL_MAP holds the job's entry
    mem_log,          \* calls made to pegasus_memory::alloc, in order
    span_status,      \* per worker: the status last set on Worker.span
    span_ends,        \* per worker: number of span.end() calls
    emitter,          \* per worker: the senders of the EventEmitter its task's schedule holds
    closed,           \* per worker: the senders it closed
    incs,             \* per worker: fetch_add calls on the guard
    decs,             \* per worker: fetch_sub calls on the guard
    zeros,            \* number of times the guard moved to zero
    aborted,          \* TRUE once a plan installation failed: the job is not spawned
    calls,            \* execute()/check_ready() calls made so far
    ret,              \* per worker: what its last execute()/check_ready() returned
    conform,          \* TRUE while every call so far followed the executor's order
    in_step,          \* per worker: TRUE while its execute() is past check_cancel()
    in_ready,         \* per worker: the read its check_ready() makes next, "no" outside one
    last,             \* the call made by the last step
    cluster,          \* the GraphScopeStore adapter: its partitions, cluster info, flags
    query,            \* the ReadGraph operation the peers are asked to run
    answer,           \* per peer: what the operation did and returned
    parsed            \* the string handed to Variable::from and the Variable it gave

vars == <<total_peers, time_limit, now, pc, task, is_finished, start, resources,
          keyed_resources, ambient, ambient_keyed, peer_guard, cancel_hook,
          cancel_map, mem_log, span_status, span_ends, emitter, closed,
          incs, decs, zeros, aborted, calls, ret, conform, in_step, in_ready,
          last,
          cluster, query, answer, parsed>>

\* The state of the worker lifecycle, and the state of the graph adapter and
\* of the variable parser.
jobVars == <<total_peers, time_limit, now, pc, task, is_finished, start, resources,
             keyed_resources, ambient, ambient_keyed, peer_guard, cancel_hook,
             cancel_map, mem_log, span_status, span_ends, emitter, closed,
             incs, decs, zeros, aborted, calls, ret, conform, in_step, in_ready,
             last>>

adapterVars == <<cluster, query, answer, parsed>>

MaxWorkers == 0 .. (MaxPeers - 1)
Workers == 0 .. (total_peers - 1)

\* JobConf::total_workers(): the number of peers cooperating on the job.
total_workers == total_peers

\* The record of one call: the worker, the operation, the path it took, the
\* guard and the cancel hook as they were when it began, what it returned, how
\* often it called sink.on_error, what the task saw in the ambient slots, and,
\* when it ran the task, the answers the task was given (df), the calls the
\* task made to its scheduler and dataflow (sched) and what the task returned
\* (task_ret).
NoAnswers == [step |-> "ok", fin |-> FALSE, close |-> "ok", idle |-> "true", notify |-> "ok"]

NoCall == [w |-> -1, op |-> "none", path |-> "none", prior |-> 0, ret |-> "none",
           hook |-> FALSE, on_error |-> 0, seen |-> {}, seen_keyed |-> {},
           df |-> NoAnswers, sched |-> <<>>, task_ret |-> "none"]

\* An error path that delivers to the sink on cancellation as well.
OnErrorCallsOnCancel(path) == IF path \in {"error", "cancel"} THEN 1 ELSE 0

\* The calls of sink.on_error made on a path of execute() / check_ready().
OnErrorCalls(path) == IF path = "error" THEN 1 ELSE 0

Call(w, op, path, r) ==
    [w |-> w, op |-> op, path |-> path, prior |-> peer_guard, ret |-> r,
     hook |-> cancel_hook, on_error |-> OnErrorCalls(path),
     seen |-> {}, seen_keyed |-> {},
     df |-> NoAnswers, sched |-> <<>>, task_ret |-> "none"]

Scoped(c, seen, seenK) == [c EXCEPT !.seen = seen, !.seen_keyed = seenK]

\* The call ran the task t with the answers df.
RanTask(c, t, df, sched, r) ==
    [c EXCEPT !.df = IF t = "Empty" THEN NoAnswers ELSE df, !.sched = sched, !.task_ret = r]

InitJob ==
    /\ total_peers \in 1 .. MaxPeers
    /\ time_limit \in 0 .. MaxTime
    /\ now = 0
    /\ pc = [w \in MaxWorkers |-> "unborn"]
    /\ task = [w \in MaxWorkers |-> "Empty"]
    /\ is_finished = [w \in MaxWorkers |-> FALSE]
    /\ start = [w \in MaxWorkers |-> 0]
    /\ resources = [w \in MaxWorkers |-> {}]
    /\ keyed_resources = [w \in MaxWorkers |-> {}]
    /\ ambient = {}
    /\ ambient_keyed = {}
    /\ peer_guard = 0
    /\ cancel_hook = FALSE
    /\ cancel_map = TRUE
    /\ mem_log = <<>>
    /\ span_status = [w \in MaxWorkers |-> "Unset"]
    /\ span_ends = [w \in MaxWorkers |-> 0]
    /\ emitter = [w \in MaxWorkers |-> <<>>]
    /\ closed = [w \in MaxWorkers |-> {}]
    /\ incs = [w \in MaxWorkers |-> 0]
    /\ decs = [w \in MaxWorkers |-> 0]
    /\ zeros = 0
    /\ aborted = FALSE
    /\ calls = 0
    /\ ret = [w \in MaxWorkers |-> "none"]
    /\ conform = TRUE
    /\ in_step = [w \in MaxWorkers |-> FALSE]
    /\ in_ready = [w \in MaxWorkers |-> "no"]
    /\ last = NoCall

\* ---- the order of the run loop ------------------------------------------
\* The job is built one worker after the other: a worker is constructed and
\* set up (resources, plan) before the next one is constructed; a failed plan
\* installation ends the job before anything is spawned; the workers are handed
\* to the executor together, and from then on only the executor touches them.
\* The workers of a job run on different threads, each worker on one thread
\* at a time: while a worker is inside execute() or check_ready() nothing else
\* is called on it.
AllConstructed == \A w \in Workers : pc[w] # "unborn"

Spawned == calls > 0

NextToConstruct(w) == \A v \in Workers : (v < w) <=> (pc[v] # "unborn")

InSetup(w) ==
    /\ pc[w] = "live"
    /\ \A v \in Workers : v > w => pc[v] = "unborn"
    /\ ~Spawned
    /\ ~aborted

InCall(w) == in_step[w] \/ in_ready[w] # "no"

MayCall(w) == pc[w] = "live" /\ AllConstructed /\ ~aborted /\ ~InCall(w)

\* The executor drops a task that returned Finished (or panicked); a job that
\* was never spawned drops its workers as they are.
MayDrop(w) ==
    pc[w] = "live" /\ ~InCall(w) /\ (ret[w] \in {"Finished", "Panic"} \/ ~Spawned)

\* ---- Worker::new --------------------------------------------------------
New(w) ==
    /\ pc[w] = "unborn"
    /\ NextToConstruct(w)
    /\ ~Spawned
    /\ ~aborted
    /\ pc' = [pc EXCEPT ![w] = "live"]
    /\ peer_guard' = peer_guard + 1
    /\ incs' = [incs EXCEPT ![w] = @ + 1]
    /\ mem_log' = IF peer_guard = 0 THEN Append(mem_log, "new_task") ELSE mem_log
    /\ start' = [start EXCEPT ![w] = now]
    /\ last' = Call(w, "new", "new", "none")
    /\ UNCHANGED <<adapterVars, in_step, in_ready, aborted, total_peers, time_limit, now, task, is_finished, resources,
                   keyed_resources, ambient, ambient_keyed, cancel_hook, cancel_map,
                   span_status, span_ends, emitter, closed, decs, zeros,
                   calls, ret, conform>>

\* ---- Worker::dataflow ---------------------------------------------------
\* The senders returned by build_channel, named by their position.
Senders(n) == [i \in 1 .. n |-> i - 1]

\* A removal of the last sender instead of the one at position i.
SwapRemoveLast(tx, i) == SubSeq(tx, 1, Len(tx) - 1)

\* Vec::swap_remove(i): the element at (0-based) position i leaves and the last
\* element takes its place.
SwapRemove(tx, i) ==
    LET n == Len(tx)
    IN  [k \in 1 .. (n - 1) |-> IF k = i + 1 THEN tx[n] ELSE tx[k]]

\* chan: whether build_channel succeeded; ch: the index of the channel it
\* returned; txLen: the number of senders; func, build: the plan builder and
\* dfb.build; root: whether root_builder.build() yields an output.  The
\* expect("no output;") on the root output panics after self.task is assigned.
NoOutput == "Panic: no output;"

DataflowResult(chan, ch, txLen, func, build, root) ==
    IF chan = "err" THEN "ChannelError"
    ELSE IF ch # 0 THEN "InternalError: Event channel index must be 0"
    ELSE IF total_workers > 1 /\ txLen # total_peers + 1
         THEN "InternalError: Incorrect number of senders"
    ELSE IF func = "err" THEN "PlanError"
    ELSE IF build = "err" THEN "BuildError"
    ELSE IF root = "none" THEN NoOutput
    ELSE "Ok"

\* The answers of build_channel, the plan builder, dfb.build and
\* root_builder.build().  An answer
\* the code does not come to ask for is left at its first value.
DataflowInputs ==
    {i \in [chan : {"ok", "err"}, ch : {0, 1}, txLen : 0 .. (MaxPeers + 2),
            func : {"ok", "err"}, build : {"ok", "err"}, root : {"some", "none"}] :
        /\ i.chan = "err" => i.ch = 0
        /\ (i.chan = "err" \/ i.ch # 0) => i.txLen = 0
        /\ DataflowResult(i.chan, i.ch, i.txLen, "ok", "ok", "some") # "Ok" => i.func = "ok"
        /\ DataflowResult(i.chan, i.ch, i.txLen, i.func, "ok", "some") # "Ok" => i.build = "ok"
        /\ DataflowResult(i.chan, i.ch, i.txLen, i.func, i.build, "some") # "Ok" =>
               i.root = "some"}

\* The result reached line 93 and passed the sender check.
TookSenders(res) == res \in {"PlanError", "BuildError", NoOutput, "Ok"}

\* The call came to line 118: dfb.build succeeded.
Built(res) == res \in {NoOutput, "Ok"}

EmitterSenders(w, txLen) ==
    IF total_workers > 1 THEN SwapRemove(Senders(txLen), w) ELSE Senders(txLen)

ClosedSenders(w, txLen) ==
    IF total_workers > 1 THEN {Senders(txLen)[w + 1]} ELSE {}

\* An assignment of self.task made before the plan is built.
TaskAfterDataflowEager(old, res) == IF TookSenders(res) THEN "Dataflow" ELSE old

\* self.task is assigned once, after dfb.build succeeded and before the root
\* output is built.
TaskAfterDataflow(old, res) == IF Built(res) THEN "Dataflow" ELSE old

Dataflow(w, chan, ch, txLen, func, build, root) ==
    LET res == DataflowResult(chan, ch, txLen, func, build, root)
    IN  /\ InSetup(w)
        /\ aborted' = (res # "Ok")
        /\ task' = [task EXCEPT ![w] = TaskAfterDataflow(@, res)]
        /\ emitter' = [emitter EXCEPT ![w] =
                          IF Built(res) THEN EmitterSenders(w, txLen) ELSE @]
        /\ closed' = [closed EXCEPT ![w] =
                          IF TookSenders(res) THEN @ \cup ClosedSenders(w, txLen) ELSE @]
        /\ last' = Call(w, "dataflow", "dataflow", res)
        /\ UNCHANGED <<adapterVars, in_step, in_ready, total_peers, time_limit, now, pc, is_finished, start,
                       resources, keyed_resources, ambient, ambient_keyed,
                       peer_guard, cancel_hook, cancel_map, mem_log, span_status,
                       span_ends, incs, decs, zeros, calls, ret,
                       conform>>

\* ---- Worker::add_resource / add_resource_with_key -----------------------
AddResource(w, t) ==
    /\ InSetup(w)
    /\ resources' = [resources EXCEPT ![w] = @ \cup {t}]
    /\ last' = Call(w, "add_resource", "add_resource", "none")
    /\ UNCHANGED <<adapterVars, in_step, in_ready, aborted, total_peers, time_limit, now, pc, task, is_finished, start,
                   keyed_resources, ambient, ambient_keyed, peer_guard,
                   cancel_hook, cancel_map, mem_log, span_status, span_ends,
                   emitter, closed, incs, decs, zeros, calls, ret,
                   conform>>

AddResourceWithKey(w, k) ==
    /\ InSetup(w)
    /\ keyed_resources' = [keyed_resources EXCEPT ![w] = @ \cup {k}]
    /\ last' = Call(w, "add_resource_with_key", "add_resource_with_key", "none")
    /\ UNCHANGED <<adapterVars, in_step, in_ready, aborted, total_peers, time_limit, now, pc, task, is_finished, start,
                   resources, ambient, ambient_keyed, peer_guard, cancel_hook,
                   cancel_map, mem_log, span_status, span_ends, emitter,
                   closed, incs, decs, zeros, calls, ret, conform>>

\* ---- Worker::check_cancel -----------------------------------------------
\* A cancellation check that reads the time limit only.
check_cancelTimeOnly(w) == time_limit > 0 /\ now - start[w] >= time_limit

check_cancel(w) ==
    IF time_limit > 0 /\ now - start[w] >= time_limit THEN TRUE ELSE cancel_hook

\* ---- WorkerTask ---------------------------------------------------------
\* What the dataflow and its scheduler answer during one call.  An answer
\* the code does not ask for is left at its first value.
ExecAnswers ==
    {a \in [step : {"ok", "err"}, fin : BOOLEAN, close : {"ok", "err"},
            idle : {"true", "false", "err"}, notify : {"ok"}] :
        /\ a.step = "err" => (a.fin /\ a.close = "ok")
        /\ a.fin => a.idle = "true"
        /\ ~a.fin => a.close = "ok"}

\* The answers that tell the outcomes of a step apart: finished, failed,
\* idle, busy.
ScopeAnswers == {a \in ExecAnswers : a.close = "ok" /\ a.idle # "err"}

ReadyAnswers ==
    {a \in [step : {"ok"}, fin : {FALSE}, close : {"ok"},
            idle : {"true", "false", "err"}, notify : {"ok", "err"}] :
        a.notify = "err" => a.idle = "true"}

\* A step that reports Finished whenever the dataflow has finished, whatever
\* closing the scheduler returned.
WorkerTaskExecuteIgnoreClose(t, df) ==
    IF t = "Empty" THEN "Finished"
    ELSE IF df.step = "err" THEN "Err"
    ELSE IF df.fin THEN "Finished"
    ELSE IF df.idle = "err" THEN "Err"
    ELSE IF df.idle = "true" THEN "NotReady"
    ELSE "Ready"

WorkerTaskExecute(t, df) ==
    IF t = "Empty" THEN "Finished"
    ELSE IF df.step = "err" THEN "Err"
    ELSE IF df.fin THEN (IF df.close = "err" THEN "Err" ELSE "Finished")
    ELSE IF df.idle = "err" THEN "Err"
    ELSE IF df.idle = "true" THEN "NotReady"
    ELSE "Ready"

\* The calls WorkerTask::execute makes to the scheduler and the dataflow.
WorkerTaskExecuteCalls(t, df) ==
    IF t = "Empty" THEN <<>>
    ELSE IF df.step = "err" THEN <<"step">>
    ELSE IF df.fin THEN <<"step", "check_finish", "close">>
    ELSE <<"step", "check_finish", "is_idle">>

\* The calls WorkerTask::check_ready makes.
WorkerTaskCheckReadyCalls(t, df) ==
    IF t = "Empty" THEN <<>>
    ELSE IF df.notify = "err" THEN <<"try_notify">>
    ELSE <<"try_notify", "is_idle">>

WorkerTaskCheckReady(t, df) ==
    IF t = "Empty" THEN "Finished"
    ELSE IF df.notify = "err" THEN "Err"
    ELSE IF df.idle = "err" THEN "Err"
    ELSE IF df.idle = "true" THEN "NotReady"
    ELSE "Ready"

\* ---- WorkerContext ------------------------------------------------------
\* One table on entry: a non-empty table is swapped into the slot and the
\* slot's previous content (pre) is asserted empty.
ContextEnter(table, slot) ==
    IF table # {}
    THEN [table |-> {}, slot |-> table, held |-> TRUE, pre |-> slot]
    ELSE [table |-> table, slot |-> slot, held |-> FALSE, pre |-> {}]

\* An exit that leaves the slot as it is.
ContextExitNoRestore(held, table, slot) == [table |-> table, slot |-> slot]

\* One table on exit: the slot's content goes back into the table the context
\* holds a reference to.
ContextExit(held, table, slot) ==
    IF held THEN [table |-> slot, slot |-> {}]
    ELSE [table |-> table, slot |-> slot]

\* ---- Worker::execute ----------------------------------------------------
\* A finish that returns the task's state whatever the guard was.
LastPeerStateVerbatim(prior) == "Finished"

\* The state returned when the task finished: prior is what fetch_sub returned.
LastPeerState(prior) == IF prior = 1 THEN "Finished" ELSE "NotReady"

\* An error path that hands the task back as NotReady.
ExecuteStateErrorNotReady(path, r, prior) ==
    IF path = "cancel" THEN "Finished"
    ELSE IF path = "error" THEN "NotReady"
    ELSE IF path \in {"panic1", "panic2"} THEN "Panic"
    ELSE IF path = "finish" THEN LastPeerState(prior)
    ELSE r

\* A state path that reports every unfinished task as NotReady.
ExecuteStateIdle(path, r, prior) ==
    IF path \in {"cancel", "error"} THEN "Finished"
    ELSE IF path \in {"panic1", "panic2"} THEN "Panic"
    ELSE IF path = "finish" THEN LastPeerState(prior)
    ELSE "NotReady"

\* What Worker::execute returns on each of its paths: r is what the task
\* returned, prior what fetch_sub returned.
ExecuteState(path, r, prior) ==
    IF path \in {"cancel", "error"} THEN "Finished"
    ELSE IF path \in {"panic1", "panic2"} THEN "Panic"
    ELSE IF path = "finish" THEN LastPeerState(prior)
    ELSE r

\* The order the executor calls a task in: execute() first and after Ready,
\* check_ready() after NotReady, nothing after Finished.
MayExecute(w) == ret[w] \in {"none", "Ready"}
MayCheckReady(w) == ret[w] = "NotReady"

\* The other threads see Worker::execute in two parts: it reads check_cancel()
\* (line 243), and, when that is false, it goes on to the scope and the task's
\* step, up to the fetch_sub on the guard.  The ambient slots belong to the
\* thread, so the scope and the step are one step to every other worker.

\* The first part: check_cancel(), and the whole of the cancel path when it is
\* true.
WorkerExecuteEnter(w) ==
    LET cancelled == check_cancel(w)
        state == ExecuteState("cancel", "none", peer_guard)
    IN  /\ in_step' = [in_step EXCEPT ![w] = ~cancelled]
        /\ cancel_hook' = (cancel_hook \/ cancelled)
        /\ span_status' = [span_status EXCEPT ![w] =
               IF cancelled THEN "Job is canceled" ELSE @]
        /\ span_ends' = [span_ends EXCEPT ![w] = IF cancelled THEN @ + 1 ELSE @]
        /\ ret' = [ret EXCEPT ![w] = IF cancelled THEN state ELSE @]
        /\ last' = IF cancelled THEN Call(w, "execute", "cancel", state)
                   ELSE Call(w, "enter", "enter", "none")
        /\ UNCHANGED <<adapterVars, in_ready, aborted, total_peers, time_limit, now, pc, task, start,
                       cancel_map, mem_log, emitter, closed, incs, is_finished,
                       peer_guard, decs, zeros, resources, ambient,
                       keyed_resources, ambient_keyed>>

\* The record of a call that read check_cancel() as false: the hook was unset
\* when the call began, whatever it is when the call returns.
Entered(c) == [c EXCEPT !.hook = FALSE]

\* The second part: the scope, the task's step with the answers df, and the
\* path the result takes.
WorkerExecuteReturn(w, df) ==
    LET in1 == ContextEnter(resources[w], ambient)
        in2 == ContextEnter(keyed_resources[w], ambient_keyed)
        r == WorkerTaskExecute(task[w], df)
        out1 == ContextExit(in1.held, in1.table, in1.slot)
        out2 == ContextExit(in2.held, in2.table, in2.slot)
        path == IF in1.pre # {} THEN "panic1"          \* the first assert! fails
                ELSE IF in2.pre # {} THEN "panic2"     \* the second assert! fails
                ELSE IF r = "Finished" THEN "finish"
                ELSE IF r = "Err" THEN "error"
                ELSE "state"
        state == ExecuteState(path, r, peer_guard)
    IN  /\ in_step' = [in_step EXCEPT ![w] = FALSE]
        /\ span_status' = [span_status EXCEPT ![w] =
               IF path = "finish" THEN "Ok"
               ELSE IF path = "error" THEN "Execution error"
               ELSE @]
        /\ span_ends' = [span_ends EXCEPT ![w] =
               IF path \in {"finish", "error"} THEN @ + 1 ELSE @]
        /\ is_finished' = [is_finished EXCEPT ![w] = IF path = "finish" THEN TRUE ELSE @]
        /\ peer_guard' = IF path = "finish" THEN peer_guard - 1 ELSE peer_guard
        /\ decs' = [decs EXCEPT ![w] = IF path = "finish" THEN @ + 1 ELSE @]
        /\ zeros' = IF path = "finish" /\ peer_guard - 1 = 0 THEN zeros + 1 ELSE zeros
        /\ resources' = [resources EXCEPT ![w] =
               IF path \in {"panic1", "panic2"} THEN in1.table ELSE out1.table]
        /\ ambient' = IF path \in {"panic1", "panic2"} THEN in1.slot ELSE out1.slot
        /\ keyed_resources' = [keyed_resources EXCEPT ![w] =
               IF path = "panic1" THEN @
               ELSE IF path = "panic2" THEN in2.table
               ELSE out2.table]
        /\ ambient_keyed' =
               IF path = "panic1" THEN ambient_keyed
               ELSE IF path = "panic2" THEN in2.slot
               ELSE out2.slot
        /\ ret' = [ret EXCEPT ![w] = state]
        /\ last' = IF path \in {"panic1", "panic2"}
                   THEN Scoped(Entered(Call(w, "execute", path, state)), in1.slot, in2.slot)
                   ELSE RanTask(Scoped(Entered(Call(w, "execute", path, state)),
                                       in1.slot, in2.slot),
                                task[w], df, WorkerTaskExecuteCalls(task[w], df), r)
        /\ UNCHANGED <<adapterVars, in_ready, aborted, total_peers, time_limit, now, pc, task, start,
                       cancel_map, cancel_hook, mem_log, emitter, closed, incs>>

\* A call of execute() by whoever holds the worker, in any order, and its
\* return.
ExecuteEnter(w) ==
    /\ MayCall(w)
    /\ calls < MaxCalls
    /\ calls' = calls + 1
    /\ conform' = (conform /\ MayExecute(w))
    /\ WorkerExecuteEnter(w)

ExecuteReturn(w, df) ==
    /\ in_step[w]
    /\ UNCHANGED <<calls, conform>>
    /\ WorkerExecuteReturn(w, df)

\* ---- Worker::check_ready ------------------------------------------------
\* A last branch that hands a finished worker back as Ready.
CheckReadyStatePeersReady(path, r) ==
    IF path \in {"all_finished", "cancel", "error", "peers_finished"} THEN "Finished"
    ELSE IF path = "state" THEN r
    ELSE "Ready"

\* What Worker::check_ready returns on each of its paths: r is what the task
\* returned.
CheckReadyState(path, r) ==
    IF path \in {"all_finished", "cancel", "error", "peers_finished"} THEN "Finished"
    ELSE IF path = "state" THEN r
    ELSE "NotReady"

\* A check_ready() that marks the worker finished when its task reports
\* Finished.
CheckReadyFinishedByTask(fin, path, r) == fin \/ (path = "state" /\ r = "Finished")

\* is_finished after check_ready(): the Finished branch of the task's state
\* logs the elapsed time and assigns nothing.
CheckReadyFinished(fin, path, r) == fin

\* Worker::check_ready reads what the peers share up to three times, and the
\* other threads run between the reads.  A finished worker loads the guard
\* (line 296), then calls check_cancel() (line 299), then loads the guard
\* again (line 327).  A worker that has not finished does not load the guard
\* (the && of line 296 stops at is_finished); it calls check_cancel() and
\* then asks its own task.

\* The call up to its first read, and up to its return where it makes no
\* further one: the test of line 296 and, for a worker that has not finished,
\* check_cancel() and the task's check_ready with the answers df.
WorkerCheckReady(w, df) ==
    LET r == WorkerTaskCheckReady(task[w], df)
        path == IF is_finished[w] /\ peer_guard = 0 THEN "all_finished"
                ELSE IF is_finished[w] THEN "peers_at_296"
                ELSE IF check_cancel(w) THEN "cancel"
                ELSE IF r = "Err" THEN "error"
                ELSE "state"
        state == CheckReadyState(path, r)
    IN  /\ in_ready' = [in_ready EXCEPT ![w] =
               IF path = "peers_at_296" THEN "cancel" ELSE "no"]
        /\ cancel_hook' = IF path = "cancel" THEN TRUE ELSE cancel_hook
        /\ ret' = [ret EXCEPT ![w] = IF path = "peers_at_296" THEN @ ELSE state]
        /\ last' = IF path = "peers_at_296"
                   THEN Call(w, "in_check_ready", path, "none")
                   ELSE IF path \in {"error", "state"}
                   THEN RanTask(Call(w, "check_ready", path, state), task[w], df,
                                WorkerTaskCheckReadyCalls(task[w], df), r)
                   ELSE Call(w, "check_ready", path, state)
        /\ is_finished' = [is_finished EXCEPT ![w] = CheckReadyFinished(@, path, r)]
        /\ UNCHANGED <<adapterVars, in_step, aborted, total_peers, time_limit, now, pc, task, start,
                       resources, keyed_resources, ambient, ambient_keyed,
                       peer_guard, cancel_map, mem_log, span_status, span_ends,
                       emitter, closed, incs, decs, zeros>>

\* The second read of a finished worker: check_cancel() at line 299, and the
\* cancel return when it is true.
WorkerCheckReadyCancel(w) ==
    LET cancelled == check_cancel(w)
        state == CheckReadyState("cancel", "none")
    IN  /\ in_ready' = [in_ready EXCEPT ![w] = IF cancelled THEN "no" ELSE "guard"]
        /\ cancel_hook' = (cancel_hook \/ cancelled)
        /\ ret' = [ret EXCEPT ![w] = IF cancelled THEN state ELSE @]
        /\ last' = IF cancelled THEN Call(w, "check_ready", "cancel", state)
                   ELSE Call(w, "in_check_ready", "not_cancelled", "none")
        /\ UNCHANGED <<adapterVars, in_step, aborted, total_peers, time_limit, now, pc, task, start,
                       resources, keyed_resources, ambient, ambient_keyed,
                       peer_guard, cancel_map, mem_log, span_status, span_ends,
                       emitter, closed, incs, decs, zeros, is_finished>>

\* The third read of a finished worker: the guard at line 327.
WorkerCheckReadyGuard(w) ==
    LET path == IF peer_guard = 0 THEN "peers_finished" ELSE "peers_remain"
        state == CheckReadyState(path, "none")
    IN  /\ in_ready' = [in_ready EXCEPT ![w] = "no"]
        /\ ret' = [ret EXCEPT ![w] = state]
        /\ last' = Call(w, "check_ready", path, state)
        /\ UNCHANGED <<adapterVars, in_step, aborted, total_peers, time_limit, now, pc, task, start,
                       resources, keyed_resources, ambient, ambient_keyed,
                       peer_guard, cancel_hook, cancel_map, mem_log, span_status,
                       span_ends, emitter, closed, incs, decs, zeros, is_finished>>

\* A call of check_ready() by whoever holds the worker, in any order, and the
\* rest of the call.
CheckReady(w, df) ==
    /\ MayCall(w)
    /\ calls < MaxCalls
    /\ calls' = calls + 1
    /\ conform' = (conform /\ MayCheckReady(w))
    /\ WorkerCheckReady(w, df)

CheckReadyCancel(w) ==
    /\ in_ready[w] = "cancel"
    /\ UNCHANGED <<calls, conform>>
    /\ WorkerCheckReadyCancel(w)

CheckReadyGuard(w) ==
    /\ in_ready[w] = "guard"
    /\ UNCHANGED <<calls, conform>>
    /\ WorkerCheckReadyGuard(w)

\* ---- Worker::release, Drop for Worker -----------------------------------
\* A release that de-registers the job whatever the guard reads.
releaseAlways(log) == Append(log, "remove_task")

release(log) == IF peer_guard = 0 THEN Append(log, "remove_task") ELSE log

Drop(w) ==
    /\ MayDrop(w)
    /\ pc' = [pc EXCEPT ![w] = "dropped"]
    /\ mem_log' = release(mem_log)
    /\ cancel_map' = FALSE
    /\ last' = Call(w, "drop", "drop", "none")
    /\ UNCHANGED <<adapterVars, in_step, in_ready, aborted, total_peers, time_limit, now, task, is_finished, start,
                   resources, keyed_resources, ambient, ambient_keyed, peer_guard,
                   cancel_hook, span_status, span_ends, emitter, closed,
                   incs, decs, zeros, calls, ret, conform>>

\* ---- the environment ----------------------------------------------------
\* Any holder of the sink sets the cancel hook.
SetCancelHook ==
    /\ ~cancel_hook
    /\ cancel_hook' = TRUE
    /\ last' = Call(-1, "set_cancel_hook", "set_cancel_hook", "none")
    /\ UNCHANGED <<adapterVars, in_step, in_ready, aborted, total_peers, time_limit, now, pc, task, is_finished, start,
                   resources, keyed_resources, ambient, ambient_keyed, peer_guard,
                   cancel_map, mem_log, span_status, span_ends, emitter,
                   closed, incs, decs, zeros, calls, ret, conform>>

\* A millisecond passes.
Tick ==
    /\ now < MaxTime
    /\ now' = now + 1
    /\ last' = Call(-1, "tick", "tick", "none")
    /\ UNCHANGED <<adapterVars, in_step, in_ready, aborted, total_peers, time_limit, pc, task, is_finished, start,
                   resources, keyed_resources, ambient, ambient_keyed, peer_guard,
                   cancel_hook, cancel_map, mem_log, span_status, span_ends,
                   emitter, closed, incs, decs, zeros, calls, ret,
                   conform>>

\* ==== parsing a string into a Variable (utils.rs) ==========================
\* A string is held as the sequence of its characters.
MaxSegments == 3

SPLITTER == "."
VAR_PREFIX == "@"
ID_KEY == <<"~", "i", "d">>
LABEL_KEY == <<"~", "l", "a", "b", "e", "l">>
LENGTH_KEY == <<"~", "l", "e", "n">>
ALL_KEY == <<"~", "a", "l", "l">>

I32Max == 2147483647
I32Min == (-I32Max) - 1

DigitValue(ch) ==
    CASE ch = "0" -> 0 [] ch = "1" -> 1 [] ch = "2" -> 2 [] ch = "3" -> 3 [] ch = "4" -> 4
      [] ch = "5" -> 5 [] ch = "6" -> 6 [] ch = "7" -> 7 [] ch = "8" -> 8 [] ch = "9" -> 9
      [] OTHER -> -1

\* The digits of s taken into an i32 with checked arithmetic, on the negative
\* side, where every i32 has room: fails on a character that is no digit and
\* on overflow.
RECURSIVE CheckedDigits(_, _)
CheckedDigits(s, acc) ==
    IF s = <<>> THEN [ok |-> TRUE, v |-> acc]
    ELSE LET d == DigitValue(Head(s))
         IN  IF d < 0 THEN [ok |-> FALSE, v |-> 0]
             ELSE IF acc < I32Min \div 10 + 1 \/ (acc = I32Min \div 10 + 1 /\ d > 8)
                  THEN [ok |-> FALSE, v |-> 0]
             ELSE CheckedDigits(Tail(s), acc * 10 - d)

\* str::parse::<i32>: an optional sign and at least one digit, within i32.
ParseI32(s) ==
    IF s = <<>> THEN [ok |-> FALSE, v |-> 0]
    ELSE IF Head(s) \in {"+", "-"} /\ Len(s) = 1 THEN [ok |-> FALSE, v |-> 0]
    ELSE IF Head(s) = "-" THEN CheckedDigits(Tail(s), 0)
    ELSE LET r == CheckedDigits(IF Head(s) = "+" THEN Tail(s) ELSE s, 0)
         IN  IF r.ok /\ r.v # I32Min THEN [ok |-> TRUE, v |-> -r.v]
             ELSE [ok |-> FALSE, v |-> 0]

\* Option<common_pb::NameOrId>
NoTag == [kind |-> "None", id |-> 0, name |-> <<>>]
TagId(n) == [kind |-> "Id", id |-> n, name |-> <<>>]
TagName(s) == [kind |-> "Name", id |-> 0, name |-> s]

\* Option<common_pb::Property>
NoProperty == [kind |-> "None", name |-> <<>>]
PropertyItem(kind) == [kind |-> kind, name |-> <<>>]
PropertyKey(s) == [kind |-> "Key", name |-> s]

\* impl From<String> for common_pb::Property
PropertyFrom(str) ==
    IF str = ID_KEY THEN PropertyItem("Id")
    ELSE IF str = LABEL_KEY THEN PropertyItem("Label")
    ELSE IF str = LENGTH_KEY THEN PropertyItem("Len")
    ELSE IF str = ALL_KEY THEN PropertyItem("All")
    ELSE PropertyKey(str)

\* A tag that is always taken as a name.
str_as_tagNameOnly(str) == IF str # <<>> THEN TagName(str) ELSE NoTag

\* str_as_tag
str_as_tag(str) ==
    IF str # <<>>
    THEN IF ParseI32(str).ok THEN TagId(ParseI32(str).v) ELSE TagName(str)
    ELSE NoTag

\* str::contains(SPLITTER)
Contains(str, ch) == \E i \in DOMAIN str : str[i] = ch

\* str::split(SPLITTER): the pieces between the splitters, empty ones included.
RECURSIVE Split(_, _, _)
Split(str, piece, pieces) ==
    IF str = <<>> THEN Append(pieces, piece)
    ELSE IF Head(str) = SPLITTER THEN Split(Tail(str), <<>>, Append(pieces, piece))
    ELSE Split(Tail(str), Append(piece, Head(str)), pieces)

\* common_pb::Variable, or the panic of the assert!
Variable(tag, property) == [panic |-> FALSE, tag |-> tag, property |-> property]
VariablePanic == [panic |-> TRUE, tag |-> NoTag, property |-> NoProperty]

\* impl From<String> for common_pb::Variable
VariableFrom(input) ==
    IF input = <<>> \/ Head(input) # VAR_PREFIX THEN VariablePanic
    ELSE LET str == Tail(input)
             splitter == Split(str, <<>>, <<>>)
         IN  IF ~Contains(str, SPLITTER) THEN Variable(str_as_tag(str), NoProperty)
             ELSE Variable(IF Len(splitter) >= 1 THEN str_as_tag(splitter[1]) ELSE NoTag,
                           IF Len(splitter) >= 2 THEN PropertyFrom(splitter[2])
                           ELSE NoProperty)

\* The texts the strings are made of: tags that are integers, near integers
\* and names, the four reserved keys, a property name, and the empty text.
Texts ==
    {<<>>, <<"1">>, <<"-", "1">>, <<"+", "7">>, <<"-">>, <<"1", "a">>, <<"a">>,
     <<"2", "1", "4", "7", "4", "8", "3", "6", "4", "7">>,
     <<"2", "1", "4", "7", "4", "8", "3", "6", "4", "8">>,
     <<"-", "2", "1", "4", "7", "4", "8", "3", "6", "4", "8">>,
     ID_KEY, LABEL_KEY, LENGTH_KEY, ALL_KEY, <<"n", "a", "m", "e">>}

\* The texts joined by the splitter.
RECURSIVE Joined(_)
Joined(n) ==
    IF n = 1 THEN Texts
    ELSE {s \o <<SPLITTER>> \o t : s \in Joined(n - 1), t \in Texts}

\* The strings handed to the parser: "@" and up to MaxSegments texts, and two
\* strings that do not start with "@".
Inputs ==
    {<<VAR_PREFIX>> \o s : s \in UNION {Joined(n) : n \in 1 .. MaxSegments}}
    \cup {<<>>, <<"1">>}

NoParse == [input |-> <<>>, done |-> FALSE, out |-> VariablePanic]

ParserIdle == parsed = NoParse

\* ==== the GraphScopeStore adapter (read_graph.rs) ==========================
\* ---- bounds of the adapter model ----------------------------------------
MaxPartitions == 3
MaxListLen == 3
MaxLocalWorkers == 2
MaxVertices == 4

\* ---- Option values ------------------------------------------------------
\* Option<Vec<_>>: None, or Some of a sequence.
None == [some |-> FALSE, v |-> <<>>]
Some(x) == [some |-> TRUE, v |-> x]

\* Option<usize>, the limit of a query.
NoLimit == [some |-> FALSE, n |-> 0]
Limit(n) == [some |-> TRUE, n |-> n]

Range(s) == {s[i] : i \in DOMAIN s}

\* The elements of S from the least to the greatest: the order in which the
\* store yields the ids of a partition and a configuration lists its
\* partitions.
RECURSIVE Ascending(_)
Ascending(S) ==
    IF S = {} THEN <<>>
    ELSE LET m == CHOOSE x \in S : \A y \in S : x <= y
         IN  <<m>> \o Ascending(S \ {m})

RECURSIVE Concat(_)
Concat(ss) == IF ss = <<>> THEN <<>> ELSE Head(ss) \o Concat(Tail(ss))

Take(s, n) == IF Len(s) <= n THEN s ELSE SubSeq(s, 1, n)

\* ---- the store and the partition manager --------------------------------
\* The graph held by the store: vertices 0 .. MaxVertices - 1, two edges out
\* of every vertex, to the next one and to the one after, two properties
\* whose values (0 or 1) are the two low bits of an element's id, and two
\* labels.
PropIds == {1, 2}
VertexIds == 0 .. (MaxVertices - 1)
EdgeIds == 0 .. (2 * MaxVertices - 1)
PropValue(id, p) == IF p = 1 THEN id % 2 ELSE (id \div 2) % 2
LabelOf(id) == id % 2
EdgeSrc(e) == e % MaxVertices
EdgeDst(e) == ((e % MaxVertices) + 1 + (e \div MaxVertices)) % MaxVertices

\* GraphPartitionManager::get_partition_id
get_partition_id(vid) == vid % MaxPartitions

\* GraphPartitionManager::get_vertex_id_by_primary_keys: the vertex of that
\* label whose key has the value, if there is one.
get_vertex_id_by_primary_keys(label, pk) ==
    IF pk \in VertexIds /\ LabelOf(pk) = label THEN Some(<<pk>>) ELSE None

\* The properties a store element carries when prop_ids was asked for:
\* None is no property, Some([]) is every property.
Fetched(prop_ids) ==
    IF ~prop_ids.some THEN {}
    ELSE IF prop_ids.v = <<>> THEN PropIds
    ELSE Range(prop_ids.v) \cap PropIds

\* An empty list of labels asks for every label.
LabelMatches(labels, id) == labels = <<>> \/ LabelOf(id) \in Range(labels)

\* The store evaluates a condition on the element it holds: every property the
\* condition reads has the value 1.
StoreMatches(condition, id) ==
    ~condition.some \/ \A i \in DOMAIN condition.v : PropValue(id, condition.v[i]) = 1

\* The limit handed to the store; 0 is no limit.
StoreLimit(s, n) == IF n = 0 THEN s ELSE Take(s, n)

StoreVertex(id, prop_ids) == [id |-> id, label |-> LabelOf(id), fetched |-> Fetched(prop_ids)]

StoreEdge(id, prop_ids) ==
    [id |-> id, label |-> LabelOf(id), fetched |-> Fetched(prop_ids),
     src |-> EdgeSrc(id), dst |-> EdgeDst(id)]

\* One call made to the store, as the store sees it.
StoreCall(fn, labels, condition, prop_ids, limit, partitions) ==
    [fn |-> fn, labels |-> labels, condition |-> condition, prop_ids |-> prop_ids,
     limit |-> limit, partitions |-> partitions]

\* GlobalGraphQuery::get_all_vertices: the partitions are scanned in the order
\* given, a partition in the order of the ids.
get_all_vertices(labels, condition, prop_ids, limit, partitions) ==
    LET of(pid) == SelectSeq(Ascending({v \in VertexIds : get_partition_id(v) = pid}),
                             LAMBDA v : LabelMatches(labels, v) /\ StoreMatches(condition, v))
        all == Concat([i \in DOMAIN partitions |-> of(partitions[i])])
    IN  StoreLimit([i \in DOMAIN all |-> StoreVertex(all[i], prop_ids)], limit)

\* GlobalGraphQuery::get_all_edges: an edge is kept with its source vertex.
get_all_edges(labels, condition, prop_ids, limit, partitions) ==
    LET of(pid) == SelectSeq(Ascending({e \in EdgeIds : get_partition_id(EdgeSrc(e)) = pid}),
                             LAMBDA e : LabelMatches(labels, e) /\ StoreMatches(condition, e))
        all == Concat([i \in DOMAIN partitions |-> of(partitions[i])])
    IN  StoreLimit([i \in DOMAIN all |-> StoreEdge(all[i], prop_ids)], limit)

\* GlobalGraphQuery::get_vertex_properties: the vertices of the ids that the
\* named partition holds.
get_vertex_properties(partition_ids, prop_ids) ==
    LET held == SelectSeq(partition_ids,
                          LAMBDA pv : pv[2] \in VertexIds /\ get_partition_id(pv[2]) = pv[1])
    IN  [i \in DOMAIN held |-> StoreVertex(held[i][2], prop_ids)]

\* GlobalGraphQuery::get_out_edges / get_in_edges of one vertex, asked of one
\* partition.
get_out_edges(pid, src, labels, condition, prop_ids, limit) ==
    LET es == SelectSeq(Ascending({e \in EdgeIds : EdgeSrc(e) = src /\ get_partition_id(src) = pid}),
                        LAMBDA e : LabelMatches(labels, e) /\ StoreMatches(condition, e))
    IN  StoreLimit([i \in DOMAIN es |-> StoreEdge(es[i], prop_ids)], limit)

get_in_edges(pid, dst, labels, condition, prop_ids, limit) ==
    LET es == SelectSeq(Ascending({e \in EdgeIds : EdgeDst(e) = dst /\ get_partition_id(dst) = pid}),
                        LAMBDA e : LabelMatches(labels, e) /\ StoreMatches(condition, e))
    IN  StoreLimit([i \in DOMAIN es |-> StoreEdge(es[i], prop_ids)], limit)

\* GlobalGraphQuery::get_out_vertex_ids / get_in_vertex_ids: the other ends of
\* those edges.
get_out_vertex_ids(pid, src, labels, condition, limit) ==
    LET es == get_out_edges(pid, src, labels, condition, None, limit)
    IN  [i \in DOMAIN es |-> StoreVertex(es[i].dst, None)]

get_in_vertex_ids(pid, dst, labels, condition, limit) ==
    LET es == get_in_edges(pid, dst, labels, condition, None, limit)
    IN  [i \in DOMAIN es |-> StoreVertex(es[i].src, None)]

\* GlobalGraphQuery::count_all_vertices / count_all_edges
count_all_vertices(labels, partitions) ==
    Len(get_all_vertices(labels, None, None, 0, partitions))

count_all_edges(labels, partitions) ==
    Len(get_all_edges(labels, None, None, 0, partitions))

\* ---- QueryParams --------------------------------------------------------
\* A row filter (PEvaluator): the properties it reads, in the order
\* extract_prop_ids lists them, and whether it converts to a store Condition.
\* It accepts an element when every property it reads is there with value 1.
NoFilter == [some |-> FALSE, props |-> <<>>, conv |-> TRUE]
Filter(props, conv) == [some |-> TRUE, props |-> props, conv |-> conv]

\* A column of QueryParams.columns: NameOrId::Id(id) or NameOrId::Str(_).
ColId(id) == [str |-> FALSE, id |-> id]
ColStr == [str |-> TRUE, id |-> 0]

\* QueryParams.sample_ratio: no sampling (a ratio of 1.0, or none), or a
\* sampling whose coins came out so that the elements with an id in keep are
\* kept.
NoSample == [on |-> FALSE, keep |-> {}]
Sample(keep) == [on |-> TRUE, keep |-> keep]

QueryParams(labels, filter, columns, limit) ==
    [labels |-> labels, filter |-> filter, columns |-> columns, limit |-> limit,
     sample_ratio |-> NoSample]

WithSample(params, sample) == [params EXCEPT !.sample_ratio = sample]

\* What the filter sees of an element built by to_runtime_vertex /
\* to_runtime_edge: the properties the store was asked to fetch for it.
Passes(filter, item) ==
    ~filter.some \/
        \A i \in DOMAIN filter.props :
            filter.props[i] \in item.fetched /\ PropValue(item.id, filter.props[i]) = 1

\* limit_n!
limit_n(s, limit) == IF limit.some THEN Take(s, limit.n) ELSE s

\* filter_limit!: the filter, then the limit.
filter_limit(s, filter, limit) == limit_n(SelectSeq(s, LAMBDA x : Passes(filter, x)), limit)

\* The elements a sampling keeps.
Sampled(s, sample_ratio) ==
    IF sample_ratio.on THEN SelectSeq(s, LAMBDA x : x.id \in sample_ratio.keep) ELSE s

\* sample_limit!: the sampling, then the limit.
sample_limit(s, sample_ratio, limit) == limit_n(Sampled(s, sample_ratio), limit)

\* filter_sample_limit!: the filter, then the sampling, then the limit.
filter_sample_limit(s, filter, sample_ratio, limit) ==
    limit_n(Sampled(SelectSeq(s, LAMBDA x : Passes(filter, x)), sample_ratio), limit)

\* ---- the helpers of the adapter -----------------------------------------
\* encode_storage_prop_keys: a column given by name is an error.
encode_storage_prop_keys(prop_names) ==
    IF ~prop_names.some THEN [ok |-> TRUE, val |-> None]
    ELSE IF \E i \in DOMAIN prop_names.v : prop_names.v[i].str
         THEN [ok |-> FALSE, val |-> None]
    ELSE [ok |-> TRUE, val |-> Some([i \in DOMAIN prop_names.v |-> prop_names.v[i].id])]

\* encode_storage_row_filter_condition: the condition for the store and the
\* flag "a row filter exists but was not pushed down".  debug tells whether
\* the build keeps debug_assert!.
encode_storage_row_filter_condition(row_filter, row_filter_pushdown, debug) ==
    IF row_filter_pushdown
    THEN IF ~row_filter.some
         THEN [panic |-> FALSE, condition |-> None, not_pushdown |-> FALSE]
         ELSE IF row_filter.conv
         THEN [panic |-> FALSE, condition |-> Some(row_filter.props), not_pushdown |-> FALSE]
         ELSE IF debug
         THEN [panic |-> TRUE, condition |-> None, not_pushdown |-> FALSE]
         ELSE [panic |-> FALSE, condition |-> None, not_pushdown |-> TRUE]
    ELSE [panic |-> FALSE, condition |-> None, not_pushdown |-> row_filter.some]

\* PEvaluator::extract_prop_ids
extract_prop_ids(filter) == Some(filter.props)

\* translation::zip_option_vecs
zip_option_vecs(a, b) ==
    IF a.some /\ b.some THEN Some(a.v \o b.v)
    ELSE IF a.some THEN a
    ELSE b

\* The orders a hash table may yield the elements of S in.
RECURSIVE Perms(_)
Perms(S) ==
    IF S = {} THEN {<<>>}
    ELSE UNION {{<<x>> \o o : o \in Perms(S \ {x})} : x \in S}

\* What the hashing of one get_vertex(ids) comes to: the order in which the
\* HashSet of property ids yields its elements, and the order in which the
\* HashMap keyed by the partitions of the ids yields its entries.  Both are
\* unspecified and differ from one run to the next.
Hashers(ids) ==
    [props : Perms(PropIds),
     parts : Perms({vid % MaxPartitions : vid \in Range(ids)})]

\* The hashing of a call that builds no HashMap.
PropHashers == [props : Perms(PropIds), parts : {<<>>}]

\* The collect through a HashSet: every id once, in the order of the set.
Dedup(s, order) == SelectSeq(order, LAMBDA x : x \in Range(s))

\* extract_needed_columns
extract_needed_columns(filter, out_columns, order) ==
    IF out_columns.some /\ out_columns.v = <<>> THEN Some(<<>>)
    ELSE LET filter_needed == IF filter.some THEN extract_prop_ids(filter) ELSE None
             columns == zip_option_vecs(filter_needed, out_columns)
         IN  IF columns.some THEN Some(Dedup(columns.v, order)) ELSE None

\* get_all_storage_props
get_all_storage_props == Some(<<>>)

\* An assignment by the quotient instead of the remainder.
RECURSIVE assign_worker_partitionsByQuotient(_, _, _)
assign_worker_partitionsByQuotient(query_partitions, workers_num, worker_idx) ==
    IF query_partitions = <<>> THEN <<>>
    ELSE LET pid == Head(query_partitions)
             rest == assign_worker_partitionsByQuotient(Tail(query_partitions),
                                                        workers_num, worker_idx)
         IN  IF pid \div workers_num = worker_idx % workers_num
             THEN <<pid>> \o rest ELSE rest

\* assign_worker_partitions: the partitions of the list, in its order, whose id
\* has the remainder of the worker's index.
RECURSIVE assign_worker_partitions(_, _, _)
assign_worker_partitions(query_partitions, workers_num, worker_idx) ==
    IF query_partitions = <<>> THEN <<>>
    ELSE LET pid == Head(query_partitions)
             rest == assign_worker_partitions(Tail(query_partitions),
                                              workers_num, worker_idx)
         IN  IF pid % workers_num = worker_idx % workers_num
             THEN <<pid>> \o rest ELSE rest

\* get_partition_label_vertex_ids: the ids are grouped by the partition that
\* owns each, a group keeping the order of the ids, and the groups leave the
\* HashMap in its order.  A group is held as its (partition, id) pairs.
get_partition_label_vertex_ids(ids, order) ==
    LET group(pid) == SelectSeq(ids, LAMBDA v : get_partition_id(v) = pid)
    IN  Concat([i \in DOMAIN order |->
                   [j \in DOMAIN group(order[i]) |-> <<order[i], group(order[i])[j]>>]])

\* get_partition_vertex_id
get_partition_vertex_id(id) == <<get_partition_id(id), id>>

\* ---- the operations of ReadGraph ----------------------------------------
\* What one operation did: how it ended ("Ok", "Err" or "Panic"), the calls it
\* made to the store, the partitions it worked out for itself, the items it
\* yielded, and the number it returned.
NoAnswer == [ret |-> "none", calls |-> <<>>, items |-> <<>>, count |-> 0]
Answer(r, store_calls, items, count) ==
    [ret |-> r, calls |-> store_calls, items |-> items, count |-> count]

\* The property list scan_vertex, scan_edge and prepare_explore_edge ask the
\* store for.
ScanPropIds(c, params, not_pushdown, h) ==
    IF c.column_filter_pushdown
    THEN LET cache_prop_ids == encode_storage_prop_keys(params.columns).val
         IN  IF not_pushdown THEN extract_needed_columns(params.filter, cache_prop_ids, h.props)
             ELSE cache_prop_ids
    ELSE get_all_storage_props

scan_vertex(c, idx, params, h) ==
    LET worker_partitions ==
            assign_worker_partitions(c.server_partitions, c.local_worker_num, idx)
        enc == encode_storage_row_filter_condition(params.filter, c.row_filter_pushdown, c.debug)
        prop_ids == ScanPropIds(c, params, enc.not_pushdown, h)
        result == get_all_vertices(params.labels, enc.condition, prop_ids, 0, worker_partitions)
        call == StoreCall("get_all_vertices", params.labels, enc.condition, prop_ids, 0,
                          worker_partitions)
    IN  IF worker_partitions = <<>> THEN Answer("Ok", <<>>, <<>>, 0)
        ELSE IF enc.panic THEN Answer("Panic", <<>>, <<>>, 0)
        ELSE IF c.column_filter_pushdown /\ ~encode_storage_prop_keys(params.columns).ok
             THEN Answer("Err", <<>>, <<>>, 0)
        ELSE IF enc.not_pushdown
             THEN Answer("Ok", <<call>>,
                         filter_sample_limit(result, params.filter, params.sample_ratio,
                                             params.limit), 0)
        ELSE Answer("Ok", <<call>>, sample_limit(result, params.sample_ratio, params.limit), 0)

\* RuntimeEdgeIter::new(ei, from_src, columns): the edges of the store iterator,
\* each carrying the flag.
FromSrc(es, from_src) ==
    [i \in DOMAIN es |-> [id |-> es[i].id, label |-> es[i].label, fetched |-> es[i].fetched,
                          src |-> es[i].src, dst |-> es[i].dst, from_src |-> from_src]]

\* A scan that reads every partition of the server, as a lone worker would.
scan_edgeAllPartitions(c, idx, params, h) ==
    LET lone == [c EXCEPT !.local_worker_num = 1]
        worker_partitions == assign_worker_partitions(lone.server_partitions, 1, idx)
        enc == encode_storage_row_filter_condition(params.filter, c.row_filter_pushdown, c.debug)
        prop_ids == ScanPropIds(c, params, enc.not_pushdown, h)
        result == FromSrc(get_all_edges(params.labels, enc.condition, prop_ids, 0,
                                        worker_partitions), TRUE)
        call == StoreCall("get_all_edges", params.labels, enc.condition, prop_ids, 0,
                          worker_partitions)
    IN  IF worker_partitions = <<>> THEN Answer("Ok", <<>>, <<>>, 0)
        ELSE IF enc.panic THEN Answer("Panic", <<>>, <<>>, 0)
        ELSE IF c.column_filter_pushdown /\ ~encode_storage_prop_keys(params.columns).ok
             THEN Answer("Err", <<>>, <<>>, 0)
        ELSE IF enc.not_pushdown
             THEN Answer("Ok", <<call>>,
                         filter_sample_limit(result, params.filter, params.sample_ratio,
                                             params.limit), 0)
        ELSE Answer("Ok", <<call>>, sample_limit(result, params.sample_ratio, params.limit), 0)

scan_edge(c, idx, params, h) ==
    LET worker_partitions ==
            assign_worker_partitions(c.server_partitions, c.local_worker_num, idx)
        enc == encode_storage_row_filter_condition(params.filter, c.row_filter_pushdown, c.debug)
        prop_ids == ScanPropIds(c, params, enc.not_pushdown, h)
        result == FromSrc(get_all_edges(params.labels, enc.condition, prop_ids, 0,
                                        worker_partitions), TRUE)
        call == StoreCall("get_all_edges", params.labels, enc.condition, prop_ids, 0,
                          worker_partitions)
    IN  IF worker_partitions = <<>> THEN Answer("Ok", <<>>, <<>>, 0)
        ELSE IF enc.panic THEN Answer("Panic", <<>>, <<>>, 0)
        ELSE IF c.column_filter_pushdown /\ ~encode_storage_prop_keys(params.columns).ok
             THEN Answer("Err", <<>>, <<>>, 0)
        ELSE IF enc.not_pushdown
             THEN Answer("Ok", <<call>>,
                         filter_sample_limit(result, params.filter, params.sample_ratio,
                                             params.limit), 0)
        ELSE Answer("Ok", <<call>>, sample_limit(result, params.sample_ratio, params.limit), 0)

\* get_vertex: the ids go to the partitions that own them; the filter is
\* applied in process and no limit is.
get_vertex(c, ids, params, h) ==
    LET cache == encode_storage_prop_keys(params.columns)
        prop_ids == IF c.column_filter_pushdown
                    THEN extract_needed_columns(params.filter, cache.val, h.props)
                    ELSE get_all_storage_props
        partition_label_vertex_ids == get_partition_label_vertex_ids(ids, h.parts)
        result == get_vertex_properties(partition_label_vertex_ids, prop_ids)
        call == StoreCall("get_vertex_properties", <<>>, None, prop_ids, 0,
                          [i \in DOMAIN partition_label_vertex_ids |->
                              partition_label_vertex_ids[i][1]])
    IN  IF c.column_filter_pushdown /\ ~cache.ok THEN Answer("Err", <<>>, <<>>, 0)
        ELSE Answer("Ok", <<call>>, filter_limit(result, params.filter, NoLimit), 0)

\* A lookup that asks the store whoever owns the partition.
index_scan_vertexUnguarded(c, idx, label, pk, params, h) ==
    LET found == get_vertex_id_by_primary_keys(label, pk)
        got == get_vertex(c, found.v, params, h)
    IN  IF found.some THEN Answer(got.ret, got.calls, Take(got.items, 1), 0)
        ELSE Answer("Ok", <<>>, <<>>, 0)

\* index_scan_vertex: items holds the vertex of Some(v) and is empty for None.
index_scan_vertex(c, idx, label, pk, params, h) ==
    LET found == get_vertex_id_by_primary_keys(label, pk)
        partition_id == get_partition_id(found.v[1])
        worker_partitions ==
            assign_worker_partitions(c.server_partitions, c.local_worker_num, idx)
        got == get_vertex(c, found.v, params, h)
    IN  IF found.some
        THEN IF partition_id \in Range(worker_partitions)
             THEN Answer(got.ret, got.calls, Take(got.items, 1), 0)
             ELSE Answer("Ok", <<>>, <<>>, 0)
        ELSE Answer("Ok", <<>>, <<>>, 0)

\* IterList::new(iters) of the store crate, read to its end: the items of its
\* iterators, each iterator in its own order.  The crate is not part of these
\* sources, and whether the list hands out its iterators from the front or
\* pops them from the back is a matter of the build that is linked.
IterList(iters, from_back) ==
    IF from_back THEN Concat([i \in DOMAIN iters |-> iters[Len(iters) + 1 - i]])
    ELSE Concat(iters)

\* The statement of prepare_explore_vertex applied to the vertex v.  An
\* accessor of the store yields one (source, neighbours) pair for the one
\* source it is given; the statement collects the neighbour iterators of the
\* pairs and chains them.
explore_vertex(c, direction, params, v) ==
    LET enc == encode_storage_row_filter_condition(params.filter, c.row_filter_pushdown, c.debug)
        limit == IF params.limit.some THEN params.limit.n ELSE 0
        src_id == get_partition_vertex_id(v)
        out_iter == <<get_out_vertex_ids(src_id[1], v, params.labels, enc.condition, limit)>>
        in_iter == <<get_in_vertex_ids(src_id[1], v, params.labels, enc.condition, limit)>>
        out_call == StoreCall("get_out_vertex_ids", params.labels, enc.condition, None,
                              limit, <<src_id[1]>>)
        in_call == StoreCall("get_in_vertex_ids", params.labels, enc.condition, None,
                             limit, <<src_id[1]>>)
        store_calls == IF direction = "Out" THEN <<out_call>>
                 ELSE IF direction = "In" THEN <<in_call>>
                 ELSE <<out_call, in_call>>
        iters == IF direction = "Out" THEN out_iter
                 ELSE IF direction = "In" THEN in_iter
                 ELSE IterList(<<out_iter, in_iter>>, c.iter_list_from_back)
        iter_list == IterList(iters, c.iter_list_from_back)
    IN  IF enc.panic THEN Answer("Panic", <<>>, <<>>, 0)
        ELSE IF enc.not_pushdown
             THEN Answer("Ok", store_calls, filter_limit(iter_list, params.filter, NoLimit), 0)
        ELSE Answer("Ok", store_calls, iter_list, 0)

\* The statement of prepare_explore_edge applied to the vertex v.
explore_edge(c, direction, params, v, h) ==
    LET enc == encode_storage_row_filter_condition(params.filter, c.row_filter_pushdown, c.debug)
        prop_ids == ScanPropIds(c, params, enc.not_pushdown, h)
        limit == IF params.limit.some THEN params.limit.n ELSE 0
        src_id == get_partition_vertex_id(v)
        out == FromSrc(get_out_edges(src_id[1], v, params.labels, enc.condition,
                                     prop_ids, limit), TRUE)
        in == FromSrc(get_in_edges(src_id[1], v, params.labels, enc.condition,
                                   prop_ids, limit), FALSE)
        out_call == StoreCall("get_out_edges", params.labels, enc.condition, prop_ids,
                              limit, <<src_id[1]>>)
        in_call == StoreCall("get_in_edges", params.labels, enc.condition, prop_ids,
                             limit, <<src_id[1]>>)
        store_calls == IF direction = "Out" THEN <<out_call>>
                 ELSE IF direction = "In" THEN <<in_call>>
                 ELSE <<out_call, in_call>>
        iters == IF direction = "Out" THEN <<out>>
                 ELSE IF direction = "In" THEN <<in>>
                 ELSE <<out, in>>
        iter_list == IterList(iters, c.iter_list_from_back)
    IN  IF enc.panic THEN Answer("Panic", <<>>, <<>>, 0)
        ELSE IF c.column_filter_pushdown /\ ~encode_storage_prop_keys(params.columns).ok
             THEN Answer("Err", <<>>, <<>>, 0)
        ELSE IF enc.not_pushdown
             THEN Answer("Ok", store_calls, filter_limit(iter_list, params.filter, NoLimit), 0)
        ELSE Answer("Ok", store_calls, iter_list, 0)

\* get_edge: not supported by this store; it fails before it reads its
\* arguments.
get_edge(ids, params) == Answer("Err", <<>>, <<>>, 0)

\* GlobalGraphQuery::translate_vertex_id: the id the vertex has outside the
\* store, here past every id it has inside.
translate_vertex_id(vertex_id) == vertex_id + MaxVertices + 1

GS_STORE_PK == 0

\* get_primary_key: Some of the pair (GS_STORE_PK, outer id).
get_primary_key(id) ==
    LET outer_id == translate_vertex_id(id)
        call == StoreCall("translate_vertex_id", <<>>, None, None, 0, <<>>)
    IN  Answer("Ok", <<call>>, <<[key |-> GS_STORE_PK, val |-> outer_id]>>, 0)

\* A count that always asks the store's count primitive.
count_vertexStoreOnly(c, idx, params, h) ==
    LET worker_partitions ==
            assign_worker_partitions(c.server_partitions, c.local_worker_num, idx)
        call == StoreCall("count_all_vertices", params.labels, None, None, 0, worker_partitions)
    IN  IF worker_partitions # <<>>
        THEN Answer("Ok", <<call>>, <<>>, count_all_vertices(params.labels, worker_partitions))
        ELSE Answer("Ok", <<>>, <<>>, 0)

\* A count that caps the store's count by the limit of the query.
count_vertexCapped(c, idx, params, h) ==
    LET scan == scan_vertex(c, idx, params, h)
        worker_partitions ==
            assign_worker_partitions(c.server_partitions, c.local_worker_num, idx)
        call == StoreCall("count_all_vertices", params.labels, None, None, 0, worker_partitions)
        n == count_all_vertices(params.labels, worker_partitions)
    IN  IF params.filter.some
        THEN Answer(scan.ret, scan.calls, <<>>, Len(scan.items))
        ELSE IF worker_partitions # <<>>
        THEN Answer("Ok", <<call>>, <<>>,
                    IF params.limit.some /\ params.limit.n < n THEN params.limit.n ELSE n)
        ELSE Answer("Ok", <<>>, <<>>, 0)

\* count_vertex
count_vertex(c, idx, params, h) ==
    LET scan == scan_vertex(c, idx, params, h)
        worker_partitions ==
            assign_worker_partitions(c.server_partitions, c.local_worker_num, idx)
        call == StoreCall("count_all_vertices", params.labels, None, None, 0, worker_partitions)
    IN  IF params.filter.some
        THEN Answer(scan.ret, scan.calls, <<>>, Len(scan.items))
        ELSE IF worker_partitions # <<>>
        THEN Answer("Ok", <<call>>, <<>>, count_all_vertices(params.labels, worker_partitions))
        ELSE Answer("Ok", <<>>, <<>>, 0)

\* count_edge
count_edge(c, idx, params, h) ==
    LET scan == scan_edge(c, idx, params, h)
        worker_partitions ==
            assign_worker_partitions(c.server_partitions, c.local_worker_num, idx)
        call == StoreCall("count_all_edges", params.labels, None, None, 0, worker_partitions)
    IN  IF params.filter.some
        THEN Answer(scan.ret, scan.calls, <<>>, Len(scan.items))
        ELSE IF worker_partitions # <<>>
        THEN Answer("Ok", <<call>>, <<>>, count_all_edges(params.labels, worker_partitions))
        ELSE Answer("Ok", <<>>, <<>>, 0)

\* ---- the peers of one server run one query ------------------------------
\* The lists of partitions a server may hold.
RECURSIVE ListsUpTo(_, _)
ListsUpTo(S, n) ==
    IF n = 0 THEN {<<>>}
    ELSE LET shorter == ListsUpTo(S, n - 1)
         IN  shorter \cup {Append(l, x) : l \in shorter, x \in S}

PartitionLists == ListsUpTo(0 .. (MaxPartitions - 1), MaxListLen)

Cluster(parts, w, row, col, debug, from_back) ==
    [server_partitions |-> parts, local_worker_num |-> w, row_filter_pushdown |-> row,
     column_filter_pushdown |-> col, debug |-> debug, iter_list_from_back |-> from_back]

NoCluster == Cluster(<<>>, 1, FALSE, FALSE, FALSE, FALSE)

Query(op, params, direction, label, pk, ids) ==
    [op |-> op, params |-> params, direction |-> direction, label |-> label,
     pk |-> pk, ids |-> ids]

PlainParams == QueryParams(<<>>, NoFilter, None, NoLimit)

NoQuery == Query("none", PlainParams, "Out", 0, 0, <<>>)

Filters == {NoFilter, Filter(<<1>>, TRUE), Filter(<<1>>, FALSE), Filter(<<2, 1>>, TRUE),
            Filter(<<2, 2>>, TRUE)}

Columns == {None, Some(<<>>), Some(<<ColId(1)>>), Some(<<ColId(2), ColId(2)>>),
            Some(<<ColStr>>)}

\* Every combination of labels, filter, columns and limit.
RichParams ==
    {QueryParams(l, f, c, n) :
        l \in {<<>>, <<1>>}, f \in Filters, c \in Columns, n \in {NoLimit, Limit(1)}}

\* The parameters of a query that is about the partitions.
FewParams == {PlainParams, QueryParams(<<>>, Filter(<<1>>, TRUE), Some(<<ColId(1)>>), NoLimit)}

\* The parameters of an expansion: plain, with a limit, with a filter.
ExploreParams ==
    {PlainParams, QueryParams(<<>>, NoFilter, None, Limit(1)),
     QueryParams(<<>>, Filter(<<1>>, TRUE), Some(<<ColId(1)>>), NoLimit)}

\* The outcomes of a sampling over the elements of the graph.
Draws == {Sample(keep) : keep \in SUBSET EdgeIds}

\* The parameters of a sampled or limited scan or count.
SampleParams ==
    {WithSample(QueryParams(<<>>, f, None, n), d) :
        f \in {NoFilter, Filter(<<1>>, TRUE)}, n \in {NoLimit, Limit(1)},
        d \in {NoSample} \cup Draws}

Directions == {"Out", "In", "Both"}

ExploreOps == {"explore_vertex", "explore_edge"}

ScanOps == {"scan_vertex", "scan_edge", "count_vertex", "count_edge"}

RichQueries == {Query(op, ps, "Out", 0, 0, <<>>) : op \in ScanOps, ps \in RichParams}

FewQueries ==
    {Query(op, ps, "Out", 0, 0, <<>>) : op \in ScanOps, ps \in FewParams}
    \cup {Query("index_scan_vertex", ps, "Out", l, pk, <<>>) :
            ps \in FewParams, l \in {0, 1}, pk \in 0 .. MaxVertices}
    \cup {Query("get_vertex", ps, "Out", 0, 0, ids) :
            ps \in FewParams, ids \in {<<0>>, <<2, 1>>}}

\* The queries that are about the vertices they are given.
ExploreQueries ==
    {Query(op, ps, d, 0, 0, <<v>>) :
        op \in ExploreOps, ps \in ExploreParams, d \in Directions, v \in VertexIds}
    \cup {Query("get_edge", ps, "Out", 0, 0, ids) : ps \in FewParams, ids \in {<<>>, <<0>>}}
    \cup {Query("get_primary_key", PlainParams, "Out", 0, 0, <<v>>) : v \in VertexIds}

SampleQueries == {Query(op, ps, "Out", 0, 0, <<>>) : op \in ScanOps, ps \in SampleParams}

\* A server in production with any list of partitions, asked a query that is
\* about the partitions.
PartitionClusters ==
    {Cluster(parts, w, TRUE, TRUE, FALSE, FALSE) :
        parts \in PartitionLists, w \in 1 .. MaxLocalWorkers}

\* A server in production holding no partition, one partition or every
\* partition, linked with either IterList, asked a query that is about the
\* vertices it is given.
ExploreClusters ==
    {Cluster(parts, w, TRUE, TRUE, FALSE, from_back) :
        parts \in {<<>>, <<0>>, Ascending(0 .. (MaxPartitions - 1))},
        w \in 1 .. MaxLocalWorkers, from_back \in BOOLEAN}

\* A server holding every partition once, in any configuration and build,
\* asked a scan or a count with any parameters.
ConfigClusters ==
    {Cluster(Ascending(0 .. (MaxPartitions - 1)), MaxLocalWorkers, row, col, debug, FALSE) :
        row \in BOOLEAN, col \in BOOLEAN, debug \in BOOLEAN}

\* A server in production holding every partition once, with the row filter
\* pushed down or not, asked a sampled or limited scan or count.
SampleClusters ==
    {Cluster(Ascending(0 .. (MaxPartitions - 1)), MaxLocalWorkers, row, FALSE, FALSE, FALSE) :
        row \in BOOLEAN}

PeerIds == 0 .. MaxLocalWorkers
Peers == 0 .. cluster.local_worker_num

AdapterIdle ==
    /\ cluster = NoCluster
    /\ query = NoQuery
    /\ answer = [p \in PeerIds |-> NoAnswer]

InitGraph ==
    /\ InitJob
    /\ total_peers = 1
    /\ time_limit = 0
    /\ ParserIdle
    /\ \/ cluster \in PartitionClusters /\ query \in FewQueries
       \/ cluster \in ExploreClusters /\ query \in ExploreQueries
       \/ cluster \in ConfigClusters /\ query \in RichQueries
       \/ cluster \in SampleClusters /\ query \in SampleQueries
    /\ answer = [p \in PeerIds |-> NoAnswer]

\* The peer p runs the operation the query names, with worker index p.
Run(p, op, a) ==
    /\ query.op = op
    /\ answer[p] = NoAnswer
    /\ answer' = [answer EXCEPT ![p] = a]
    /\ UNCHANGED <<jobVars, cluster, query, parsed>>

ScanVertex(p) ==
    /\ query.op = "scan_vertex"
    /\ \E h \in PropHashers : Run(p, "scan_vertex", scan_vertex(cluster, p, query.params, h))

ScanEdge(p) ==
    /\ query.op = "scan_edge"
    /\ \E h \in PropHashers : Run(p, "scan_edge", scan_edge(cluster, p, query.params, h))

IndexScanVertex(p) ==
    /\ query.op = "index_scan_vertex"
    /\ \E h \in Hashers(get_vertex_id_by_primary_keys(query.label, query.pk).v) :
        Run(p, "index_scan_vertex",
            index_scan_vertex(cluster, p, query.label, query.pk, query.params, h))

GetVertex(p) ==
    /\ query.op = "get_vertex"
    /\ \E h \in Hashers(query.ids) : Run(p, "get_vertex", get_vertex(cluster, query.ids, query.params, h))

GetEdge(p) == Run(p, "get_edge", get_edge(query.ids, query.params))

ExploreVertex(p) ==
    Run(p, "explore_vertex",
        explore_vertex(cluster, query.direction, query.params, query.ids[1]))

ExploreEdge(p) ==
    /\ query.op = "explore_edge"
    /\ \E h \in PropHashers :
        Run(p, "explore_edge",
            explore_edge(cluster, query.direction, query.params, query.ids[1], h))

GetPrimaryKey(p) ==
    /\ query.op = "get_primary_key"
    /\ Run(p, "get_primary_key", get_primary_key(query.ids[1]))

CountVertex(p) ==
    /\ query.op = "count_vertex"
    /\ \E h \in PropHashers : Run(p, "count_vertex", count_vertex(cluster, p, query.params, h))

CountEdge(p) ==
    /\ query.op = "count_edge"
    /\ \E h \in PropHashers : Run(p, "count_edge", count_edge(cluster, p, query.params, h))

NextGraph ==
    \/ \E p \in Peers : ScanVertex(p)
    \/ \E p \in Peers : ScanEdge(p)
    \/ \E p \in Peers : IndexScanVertex(p)
    \/ \E p \in Peers : GetVertex(p)
    \/ \E p \in Peers : GetEdge(p)
    \/ \E p \in Peers : ExploreVertex(p)
    \/ \E p \in Peers : ExploreEdge(p)
    \/ \E p \in Peers : GetPrimaryKey(p)
    \/ \E p \in Peers : CountVertex(p)
    \/ \E p \in Peers : CountEdge(p)

SpecGraph == InitGraph /\ [][NextGraph]_vars

\* ---- one string is parsed ----------------------------------------------
InitVariable ==
    /\ InitJob
    /\ total_peers = 1
    /\ time_limit = 0
    /\ AdapterIdle
    /\ parsed \in {[input |-> s, done |-> FALSE, out |-> VariablePanic] : s \in Inputs}

\* common_pb::Variable::from(input)
ParseVariable ==
    /\ ~parsed.done
    /\ parsed' = [parsed EXCEPT !.done = TRUE, !.out = VariableFrom(parsed.input)]
    /\ UNCHANGED <<jobVars, cluster, query, answer>>

NextVariable == ParseVariable

SpecVariable == InitVariable /\ [][NextVariable]_vars

\* ==== the specifications of the worker lifecycle ==========================
\* The lifecycle of a job without a time limit whose workers register no
\* resources.
Init == InitJob /\ time_limit = 0 /\ AdapterIdle /\ ParserIdle

Next ==
    \/ \E w \in Workers : New(w)
    \/ \E w \in Workers, i \in DataflowInputs :
          Dataflow(w, i.chan, i.ch, i.txLen, i.func, i.build, i.root)
    \/ \E w \in Workers : ExecuteEnter(w)
    \/ \E w \in Workers, df \in ExecAnswers : ExecuteReturn(w, df)
    \/ \E w \in Workers, df \in ReadyAnswers : CheckReady(w, df)
    \/ \E w \in Workers : CheckReadyCancel(w)
    \/ \E w \in Workers : CheckReadyGuard(w)
    \/ \E w \in Workers : Drop(w)
    \/ SetCancelHook

Spec == Init /\ [][Next]_vars

\* A job with a time limit and a running clock, from its construction to the
\* calls of the executor: the cancel hook is set by the workers themselves,
\* when one of them finds the time limit passed.
\* The calls of a job whose claims need one call fewer than the others.
ShortCalls == MaxCalls - 1

ShortExecuteEnter(w) ==
    /\ MayCall(w)
    /\ calls < ShortCalls
    /\ calls' = calls + 1
    /\ conform' = (conform /\ MayExecute(w))
    /\ WorkerExecuteEnter(w)

ShortCheckReady(w, df) ==
    /\ MayCall(w)
    /\ calls < ShortCalls
    /\ calls' = calls + 1
    /\ conform' = (conform /\ MayCheckReady(w))
    /\ WorkerCheckReady(w, df)

NextTime ==
    \/ \E w \in Workers : New(w)
    \/ \E w \in Workers, i \in DataflowInputs :
          Dataflow(w, i.chan, i.ch, i.txLen, i.func, i.build, i.root)
    \/ \E w \in Workers : ShortExecuteEnter(w)
    \/ \E w \in Workers, df \in ExecAnswers : ExecuteReturn(w, df)
    \/ \E w \in Workers, df \in ReadyAnswers : ShortCheckReady(w, df)
    \/ \E w \in Workers : CheckReadyCancel(w)
    \/ \E w \in Workers : CheckReadyGuard(w)
    \/ Tick

InitTime == InitJob /\ time_limit > 0 /\ AdapterIdle /\ ParserIdle

SpecTime == InitTime /\ [][NextTime]_vars

\* A job under a running clock, without a time limit or with the limit the
\* clock reaches last, whose plans install and whose steps do not fail: each
\* step finishes the dataflow, or leaves it idle, or leaves it with work.
ClockAnswers == {a \in ExecAnswers : a.step = "ok" /\ a.close = "ok" /\ a.idle # "err"}

ClockReadyAnswers == {a \in ReadyAnswers : a.notify = "ok" /\ a.idle # "err"}

InitClock == InitJob /\ time_limit \in {0, MaxTime} /\ AdapterIdle /\ ParserIdle

NextClock ==
    \/ \E w \in Workers : New(w)
    \/ \E w \in Workers : Dataflow(w, "ok", 0, total_peers + 1, "ok", "ok", "some")
    \/ \E w \in Workers : ExecuteEnter(w)
    \/ \E w \in Workers, df \in ClockAnswers : ExecuteReturn(w, df)
    \/ \E w \in Workers, df \in ClockReadyAnswers : CheckReady(w, df)
    \/ \E w \in Workers : CheckReadyCancel(w)
    \/ \E w \in Workers : CheckReadyGuard(w)
    \/ Tick

SpecClock == InitClock /\ [][NextClock]_vars

\* The executor's loop over the workers of a job without a time limit whose
\* plans install, whose steps do not fail and which nobody cancels: a task is
\* executed at first and after it returned Ready, asked check_ready() after it
\* returned NotReady, and left alone after Finished.  The polls are counted
\* up to MaxCalls only; the loop goes on beyond.
CountedCalls == IF calls < MaxCalls THEN calls + 1 ELSE calls

PollExecuteEnter(w) ==
    /\ MayCall(w)
    /\ MayExecute(w)
    /\ calls' = CountedCalls
    /\ conform' = conform
    /\ WorkerExecuteEnter(w)

PollCheckReady(w, df) ==
    /\ MayCall(w)
    /\ MayCheckReady(w)
    /\ calls' = CountedCalls
    /\ conform' = conform
    /\ WorkerCheckReady(w, df)

\* The step in which the dataflow reports check_finish, and the poll that
\* finds the dataflow with work to do.
Finishing == [NoAnswers EXCEPT !.fin = TRUE]
Busy == [NoAnswers EXCEPT !.idle = "false"]

NextPoll ==
    \/ \E w \in Workers : New(w)
    \/ \E w \in Workers : Dataflow(w, "ok", 0, total_peers + 1, "ok", "ok", "some")
    \/ \E w \in Workers : PollExecuteEnter(w)
    \/ \E w \in Workers, df \in ClockAnswers : ExecuteReturn(w, df)
    \/ \E w \in Workers, df \in ClockReadyAnswers : PollCheckReady(w, df)
    \/ \E w \in Workers : CheckReadyCancel(w)
    \/ \E w \in Workers : CheckReadyGuard(w)

\* The executor keeps polling every task, every dataflow that is idle comes to
\* have work again, and every dataflow that keeps being stepped comes to
\* report check_finish.
FairPoll ==
    \A w \in MaxWorkers :
        /\ WF_vars(PollExecuteEnter(w))
        /\ WF_vars(\E df \in ClockAnswers : ExecuteReturn(w, df))
        /\ WF_vars(\E df \in ClockReadyAnswers : PollCheckReady(w, df))
        /\ WF_vars(CheckReadyCancel(w))
        /\ WF_vars(CheckReadyGuard(w))
        /\ SF_vars(PollCheckReady(w, Busy))
        /\ SF_vars(ExecuteReturn(w, Finishing))

SpecPoll == Init /\ [][NextPoll]_vars /\ FairPoll

\* The same job whose workers register resources before they are spawned,
\* driven by an executor that keeps executing them.
NextScope ==
    \/ \E w \in Workers : New(w)
    \/ \E w \in Workers, t \in ResTypes : AddResource(w, t)
    \/ \E w \in Workers, k \in ResKeys : AddResourceWithKey(w, k)
    \/ \E w \in Workers, i \in DataflowInputs :
          Dataflow(w, i.chan, i.ch, i.txLen, i.func, i.build, i.root)
    \/ \E w \in Workers : ShortExecuteEnter(w)
    \/ \E w \in Workers, df \in ScopeAnswers : ExecuteReturn(w, df)

SpecScope == Init /\ [][NextScope]_vars

\* ==== the properties of the worker lifecycle ==============================

RECURSIVE SumTo(_, _)
SumTo(f, n) == IF n < 0 THEN 0 ELSE f[n] + SumTo(f, n - 1)

\* The sum of a per-worker counter over the peers of the job.
Total(f) == SumTo(f, total_peers - 1)

\* The worker went through its whole lifecycle: its last call returned
\* Finished and it was dropped.
Complete(w) == pc[w] = "dropped" /\ ret[w] = "Finished"

AllComplete == \A w \in Workers : Complete(w)

IsCall(c) == c.op \in {"execute", "check_ready"}

\* The step in which a call of execute() or check_ready() returns: the step
\* that began it, or a later part of it.
CallEnds ==
    IsCall(last') /\ (calls' # calls \/ in_step' # in_step \/ in_ready' # in_ready)

\* The step in which a call begins, on the worker last'.w.
CallBegins == calls' # calls

\* The step is part of a check_ready().
InCheckReady ==
    /\ calls' # calls \/ in_ready' # in_ready
    /\ last'.op \in {"check_ready", "in_check_ready"}

\* The call that began went on to its check_cancel() without returning: a
\* check_ready() of a finished worker that read the guard as not zero.
GoesOn == in_ready'[last'.w] = "cancel" /\ in_ready[last'.w] = "no"

\* The step in which the check_ready() of the finished worker w calls
\* check_cancel().
ReadsCancel(w) == in_ready[w] = "cancel" /\ in_ready'[w] # "cancel"

\* The step in which the check_ready() of the finished worker w loads the
\* guard for the second time.
ReadsGuardAgain(w) == in_ready[w] = "guard" /\ in_ready'[w] # "guard"

\* The step calls check_cancel() of last'.w: the first part of an execute(),
\* the first part of a check_ready() of a worker that has not finished, the
\* second part of a check_ready() of a finished worker.
CallsCheckCancel ==
    \/ /\ CallBegins
       /\ ~(last'.op \in {"check_ready", "in_check_ready"} /\ is_finished[last'.w])
    \/ ReadsCancel(last'.w)

\* C1: over every complete lifecycle of all N workers of a job (construction,
\* calls in the executor's order ending in normal finish, error or
\* cancellation, then drop) the guard was incremented N times, decremented N
\* times and reached zero exactly once.
C1_PeerCountConservation ==
    (conform /\ AllComplete) =>
        /\ Total(incs) = total_peers
        /\ Total(decs) = total_peers
        /\ zeros = 1

\* C2: an execute() call in which the task reached its terminal state returns
\* Finished exactly when it moved the guard from 1 to 0 and NotReady
\* otherwise; at most one call of the job does the former, and exactly one
\* has done it once every peer has finished.
C2_LastPeerSemantics ==
    /\ (last.op = "execute" /\ last.path = "finish") =>
          /\ last.ret \in {"Finished", "NotReady"}
          /\ last.ret = "Finished" <=> (last.prior = 1 /\ peer_guard = 0)
    /\ zeros <= 1
    /\ (\A w \in Workers : is_finished[w]) => zeros = 1

\* Two peers: one finished earlier and got NotReady, the last one got Finished.
C2_Witness ==
    /\ total_peers = 2
    /\ last.op = "execute" /\ last.path = "finish" /\ last.ret = "Finished"
    /\ \E v \in Workers : v # last.w /\ is_finished[v] /\ decs[v] = 1

\* C3: once the cancel hook is set it stays set, and every execute() and
\* check_ready() call made from then on, on any peer, returns Finished: at
\* once, or, for a check_ready() of a finished worker that read the guard as
\* not zero, when it loads the hook.
C3_CancellationTerminality ==
    [][cancel_hook =>
          /\ cancel_hook'
          /\ CallBegins => (GoesOn \/ (IsCall(last') /\ last'.ret = "Finished"))
          /\ \A w \in Workers :
                ReadsCancel(w) =>
                    (IsCall(last') /\ last'.w = w /\ last'.ret = "Finished")]_vars

\* A call on a finished worker whose peers are still outstanding, and a call on
\* an unfinished worker with a dataflow, both after the hook was set.
C3_Witness ==
    /\ IsCall(last) /\ last.hook /\ last.ret = "Finished"
    /\ is_finished[last.w] /\ peer_guard > 0
    /\ \E v \in Workers : v # last.w /\ task[v] = "Dataflow" /\ ~is_finished[v]

\* C4: under any sequence of execute() and check_ready() calls each worker is
\* counted in the guard once (one increment, at most one decrement) and the
\* guard never goes below zero.
C4_CountedOnce ==
    /\ \A w \in Workers : incs[w] <= 1 /\ decs[w] <= 1
    /\ peer_guard >= 0

\* C5: a worker whose execute() returned Finished on the cancel path has
\* decremented the guard exactly once by the time it has been dropped.
C5_CancelledWorkerDecrements ==
    \A w \in Workers :
        (pc[w] = "dropped" /\ span_status[w] = "Job is canceled") => decs[w] = 1

\* C6: the memory accountant is called with new_task once and then with
\* remove_task once over the life of a job.  Stated for the jobs in which every
\* worker finished normally and was called in the executor's order.
C6_MemoryAccountingBalanced ==
    (conform /\ AllComplete /\ \A w \in Workers : is_finished[w]) =>
        mem_log = <<"new_task", "remove_task">>

\* C7: a worker that has come to its terminal outcome, called in the
\* executor's order, has had span.end() called exactly once.
C7_SpanEndedOnce ==
    conform => \A w \in Workers : ret[w] = "Finished" => span_ends[w] = 1

\* C8: the ambient slots are empty whenever no execute() is running, no
\* execute() finds a slot occupied, and after an execute() that entered the
\* scope (whether the task returned a state or an error) each table of the
\* worker holds what the slot held for the task.
C8_ResourceScope ==
    /\ ambient = {}
    /\ ambient_keyed = {}
    /\ last.path \notin {"panic1", "panic2"}
    /\ (last.op = "execute" /\ last.path \in {"finish", "error", "state"}) =>
          /\ resources[last.w] = last.seen
          /\ keyed_resources[last.w] = last.seen_keyed

\* A worker holding both kinds of resources ran after another worker had run,
\* and its task failed.
C8_Witness ==
    /\ last.op = "execute" /\ last.path = "error"
    /\ last.seen = ResTypes /\ last.seen_keyed = ResKeys
    /\ resources[last.w] = ResTypes /\ keyed_resources[last.w] = ResKeys
    /\ calls >= 2

\* C9 as stated: a plan installation that returns an error leaves the task
\* Empty, and a task becomes Dataflow only in an installation that succeeds.
C9_FailedInstallKeepsEmpty ==
    [][\A w \in MaxWorkers :
          IF last'.op = "dataflow" /\ last'.w = w
          THEN IF last'.ret = "Ok" THEN task'[w] = "Dataflow"
               ELSE task'[w] = "Empty"
          ELSE task'[w] = task[w]]_vars

\* C9 amended: a plan installation that returns an error leaves the task as
\* it was, Empty on a worker without a plan; the task becomes Dataflow in the
\* calls that come past dfb.build, the one that returns Ok and the one that
\* panics on the missing root output, and in no other step.
C9_FailedInstallKeepsTask ==
    [][\A w \in MaxWorkers :
          IF last'.op = "dataflow" /\ last'.w = w
          THEN IF Built(last'.ret) THEN task'[w] = "Dataflow"
               ELSE task'[w] = task[w]
          ELSE task'[w] = task[w]]_vars

\* The second peer of a job is handed a wrong number of senders after the
\* first one was installed.
C9_Witness ==
    /\ last.op = "dataflow" /\ last.w = 1
    /\ last.ret = "InternalError: Incorrect number of senders"
    /\ task[1] = "Empty" /\ task[0] = "Dataflow"

\* C10: after a successful installation on a job of more than one peer the
\* emitter holds total_peers senders, every sender of the channel but the
\* worker's own, and the worker's own sender has been closed.
C10_SelfSendSuppression ==
    \A w \in Workers :
        (task[w] = "Dataflow" /\ total_peers > 1) =>
            /\ Len(emitter[w]) = total_peers
            /\ \A i \in 1 .. Len(emitter[w]) : emitter[w][i] # w
            /\ {emitter[w][i] : i \in 1 .. Len(emitter[w])} = (0 .. total_peers) \ {w}
            /\ w \in closed[w]

\* Both peers installed; the last sender took the place of peer 0's own.
C10_Witness ==
    /\ total_peers = 2
    /\ task[0] = "Dataflow" /\ task[1] = "Dataflow"
    /\ emitter[0][1] = 2
    /\ emitter[1] = <<0, 2>>
\* ==== the properties of the graph adapter =================================

\* The partitions an operation named to the store, over all its store calls.
PassedPartitions(a) == UNION {Range(a.calls[k].partitions) : k \in DOMAIN a.calls}

\* The partitions assign_worker_partitions gives the worker index idx.
Assigned(idx) ==
    Range(assign_worker_partitions(cluster.server_partitions, cluster.local_worker_num, idx))

\* C11: when the peers with worker indices 0 .. W-1 scan or count, the
\* partitions each one reads are exactly the server partitions p with
\* p mod W = idx mod W, no partition is read by two of them, and once all of
\* them have run every server partition has been read.
C11_PartitionDisjointnessCoverage ==
    LET W == cluster.local_worker_num
        parts == Range(cluster.server_partitions)
        ran == {i \in 0 .. (W - 1) : answer[i].ret = "Ok"}
    IN  query.op \in ScanOps =>
            /\ \A i \in ran :
                  PassedPartitions(answer[i]) = {p \in parts : p % W = i % W}
            /\ \A i, j \in ran :
                  i # j => PassedPartitions(answer[i]) \cap PassedPartitions(answer[j]) = {}
            /\ ran = 0 .. (W - 1) =>
                  UNION {PassedPartitions(answer[i]) : i \in ran} = parts

\* Two workers shared three partitions: worker 0 read two of them.
C11_Witness ==
    /\ cluster.local_worker_num = 2
    /\ cluster.server_partitions = <<2, 1, 0>>
    /\ query.op = "scan_vertex"
    /\ PassedPartitions(answer[0]) = {0, 2}
    /\ PassedPartitions(answer[1]) = {1}
\* The operations that go to the partitions of the worker, and those that go
\* to the partitions of the ids they are given.
AssignedOps == ScanOps \cup {"index_scan_vertex"}
RoutedOps == {"get_vertex", "explore_vertex", "explore_edge"}

\* The partitions that own the ids of the query.
Owners == {get_partition_id(query.ids[i]) : i \in DOMAIN query.ids}

\* C12, as stated: whatever operation a peer runs, every partition it names to
\* the store is one of the partitions assign_worker_partitions gives it.
C12_StorePartitionsAssigned ==
    \A p \in Peers : PassedPartitions(answer[p]) \subseteq Assigned(p)

\* C12, amended: the scans, the counts and the index scan name only partitions
\* assigned to the calling worker; get_vertex and the explore statements name
\* the partitions that own the ids they are given, assigned or not.
C12_ScanPartitionsAssigned ==
    \A p \in Peers :
        /\ query.op \in AssignedOps => PassedPartitions(answer[p]) \subseteq Assigned(p)
        /\ (query.op \in RoutedOps /\ answer[p].calls # <<>>) =>
              PassedPartitions(answer[p]) = Owners

\* A get_vertex of one peer named a partition that is not assigned to its
\* worker, and the get_vertex of another named one that is.
C12_Witness ==
    /\ query.op = "get_vertex"
    /\ \E p \in Peers : answer[p].ret = "Ok" /\ answer[p].calls # <<>>
                        /\ ~(PassedPartitions(answer[p]) \subseteq Assigned(p))
    /\ \E p \in Peers : answer[p].ret = "Ok" /\ answer[p].calls # <<>>
                        /\ PassedPartitions(answer[p]) \subseteq Assigned(p)

\* The ids of the items an operation yielded.
ItemIds(a) == {a.items[i].id : i \in DOMAIN a.items}

\* The same scan on the same adapter with the other setting of
\* row_filter_pushdown, its hashing coming to h.
OtherPushdown(p, h) ==
    scan_vertex([cluster EXCEPT !.row_filter_pushdown = ~@], p, query.params, h)

\* C13, as stated: a scan_vertex ends the same way and yields the same set of
\* vertices whether row_filter_pushdown is on or off, for every filter.
C13_FilterPushdownEquivalent ==
    \A p \in Peers :
        (query.op = "scan_vertex" /\ answer[p] # NoAnswer) =>
            \A h \in PropHashers :
                /\ answer[p].ret = OtherPushdown(p, h).ret
                /\ ItemIds(answer[p]) = ItemIds(OtherPushdown(p, h))

\* The set P_F of the properties the filter of the query reads and the list
\* P_C of the columns it requests, as Options.
FilterProps == IF query.params.filter.some THEN Some(query.params.filter.props) ELSE None

RequestedColumns ==
    IF query.params.columns.some
    THEN Some([i \in DOMAIN query.params.columns.v |-> query.params.columns.v[i].id])
    ELSE None

\* props is the de-duplicated union of P_F and P_C (None when both are None).
IsDedupUnion(props) ==
    IF ~FilterProps.some /\ ~RequestedColumns.some THEN props = None
    ELSE /\ props.some
         /\ Range(props.v) = Range(FilterProps.v) \cup Range(RequestedColumns.v)
         /\ Len(props.v) = Cardinality(Range(props.v))

\* The property list of the store call of a scan.
PassedProps(a) == a.calls[1].prop_ids

\* C14, as stated: the property list scan_vertex / scan_edge pass to the store
\* is the de-duplicated union of P_F and P_C when column push-down is on and
\* P_C is not Some([]), whether or not the row filter was pushed down, and is
\* Some([]) otherwise.
C14_ColumnProjectionUnion ==
    \A p \in Peers :
        (query.op \in {"scan_vertex", "scan_edge"} /\ answer[p].calls # <<>>) =>
            IF cluster.column_filter_pushdown /\ query.params.columns # Some(<<>>)
            THEN IsDedupUnion(PassedProps(answer[p]))
            ELSE PassedProps(answer[p]) = Some(<<>>)

\* C15: of the peers that run one primary-key lookup with worker indices
\* distinct modulo the local worker count at most one returns Some(v); a peer
\* whose assigned partitions do not contain the partition of the resolved id
\* returns None without a call to the store, and the peer that owns it returns
\* the first result of get_vertex for that id.
C15_IndexScanUniqueness ==
    LET W == cluster.local_worker_num
        found == get_vertex_id_by_primary_keys(query.label, query.pk)
    IN  query.op = "index_scan_vertex" =>
            /\ \A p, q \in Peers :
                  p % W # q % W => ~(answer[p].items # <<>> /\ answer[q].items # <<>>)
            /\ \A p \in Peers :
                  (answer[p] # NoAnswer /\ found.some) =>
                      IF get_partition_id(found.v[1]) \in Assigned(p)
                      THEN /\ answer[p].calls # <<>>
                           /\ \E h \in Hashers(found.v) :
                                 answer[p].items =
                                     Take(get_vertex(cluster, found.v, query.params, h).items, 1)
                      ELSE /\ answer[p].ret = "Ok"
                           /\ answer[p].items = <<>>
                           /\ answer[p].calls = <<>>

\* Two workers looked up the same key: the owner of the partition returned the
\* vertex, the other returned None and did not go to the store.
C15_Witness ==
    /\ query.op = "index_scan_vertex"
    /\ cluster.local_worker_num = 2
    /\ \E p, q \in Peers :
          /\ p % 2 # q % 2
          /\ Len(answer[p].items) = 1 /\ answer[p].items[1].id = query.pk
          /\ answer[q].ret = "Ok" /\ answer[q].items = <<>> /\ answer[q].calls = <<>>

\* C18: with a filter count_vertex / count_edge return the number of items
\* scan_vertex / scan_edge yield for the same params (and end as the scan
\* ends); without a filter they return the store's count over the worker's
\* partitions and the requested labels, and 0 with no store call when the
\* worker owns no partition.
C18_CountEqualsScan ==
    \A p \in Peers :
        (query.op \in {"count_vertex", "count_edge"} /\ answer[p] # NoAnswer) =>
            LET vertex == query.op = "count_vertex"
                scan(h) == IF vertex THEN scan_vertex(cluster, p, query.params, h)
                           ELSE scan_edge(cluster, p, query.params, h)
                parts == assign_worker_partitions(cluster.server_partitions,
                                                  cluster.local_worker_num, p)
                fn == IF vertex THEN "count_all_vertices" ELSE "count_all_edges"
                n == IF vertex THEN count_all_vertices(query.params.labels, parts)
                     ELSE count_all_edges(query.params.labels, parts)
            IN  IF query.params.filter.some
                THEN \E h \in PropHashers :
                         /\ answer[p].ret = scan(h).ret
                         /\ answer[p].count = Len(scan(h).items)
                         /\ answer[p].calls = scan(h).calls
                ELSE IF parts = <<>>
                THEN answer[p] = Answer("Ok", <<>>, <<>>, 0)
                ELSE /\ answer[p].ret = "Ok"
                     /\ answer[p].calls =
                           <<StoreCall(fn, query.params.labels, None, None, 0, parts)>>
                     /\ answer[p].count = n

\* A count with a filter returned one vertex where the store holds more in the
\* worker's partitions.
C18_Witness ==
    /\ query.op = "count_vertex"
    /\ query.params.filter.some
    /\ \E p \in Peers :
          /\ answer[p].ret = "Ok"
          /\ answer[p].count = 1
          /\ count_all_vertices(query.params.labels, answer[p].calls[1].partitions) > 1

\* The store functions an operation called, in the order of the calls.
CalledFns(a) == [i \in DOMAIN a.calls |-> a.calls[i].fn]

\* The neighbours of v along its out edges and along its in edges.
OutNeighbours(v) == {EdgeDst(e) : e \in {x \in EdgeIds : EdgeSrc(x) = v}}
InNeighbours(v) == {EdgeSrc(e) : e \in {x \in EdgeIds : EdgeDst(x) = v}}

\* What the accessors of the store give the statement for the vertex v: the
\* calls, for Both the out accessor and then the in accessor, and the flags
\* of the edges; an edge read through the out accessor (an edge leaving the
\* vertex) carries from_src = true, one read through the in accessor (an edge
\* entering it) carries from_src = false.
ExploreCallsAndFlags(a, v, d) ==
    IF query.op = "explore_edge"
    THEN /\ CalledFns(a) = (IF d = "Out" THEN <<"get_out_edges">>
                            ELSE IF d = "In" THEN <<"get_in_edges">>
                            ELSE <<"get_out_edges", "get_in_edges">>)
         /\ \A i \in DOMAIN a.items :
                /\ a.items[i].from_src <=> EdgeSrc(a.items[i].id) = v
                /\ ~a.items[i].from_src <=> EdgeDst(a.items[i].id) = v
                /\ d = "Out" => a.items[i].from_src
                /\ d = "In" => ~a.items[i].from_src
    ELSE /\ CalledFns(a) = (IF d = "Out" THEN <<"get_out_vertex_ids">>
                            ELSE IF d = "In" THEN <<"get_in_vertex_ids">>
                            ELSE <<"get_out_vertex_ids", "get_in_vertex_ids">>)
         /\ d = "Out" => \A i \in DOMAIN a.items : a.items[i].id \in OutNeighbours(v)
         /\ d = "In" => \A i \in DOMAIN a.items : a.items[i].id \in InNeighbours(v)

\* What the statement yields for Out and for In, one after the other.
OutThenIn(v) ==
    IF query.op = "explore_edge"
    THEN {explore_edge(cluster, "Out", query.params, v, h).items
              \o explore_edge(cluster, "In", query.params, v, h).items : h \in PropHashers}
    ELSE {explore_vertex(cluster, "Out", query.params, v).items
              \o explore_vertex(cluster, "In", query.params, v).items}

InThenOut(v) ==
    IF query.op = "explore_edge"
    THEN {explore_edge(cluster, "In", query.params, v, h).items
              \o explore_edge(cluster, "Out", query.params, v, h).items : h \in PropHashers}
    ELSE {explore_vertex(cluster, "In", query.params, v).items
              \o explore_vertex(cluster, "Out", query.params, v).items}

\* C26: the statement of prepare_explore_vertex / prepare_explore_edge calls
\* the out accessor for Out, the in accessor for In, and for Both the out
\* accessor and then the in accessor, and yields for Both what it yields for
\* Out followed by what it yields for In; the edges carry the flag of their
\* accessor, and no edge with from_src = false comes before one with
\* from_src = true.
C26_BothIsOutThenIn ==
    \A p \in Peers :
        (query.op \in ExploreOps /\ answer[p].ret = "Ok") =>
            LET a == answer[p]
                v == query.ids[1]
            IN  /\ ExploreCallsAndFlags(a, v, query.direction)
                /\ query.direction = "Both" => a.items \in OutThenIn(v)

\* What of C26 does not rest on IterList: the calls and the flags are as above
\* with either list; for Both the results of one direction come in one block
\* and those of the other in another; the vertices of prepare_explore_vertex
\* come out first with either list, the edges of prepare_explore_edge come out
\* first with a list that hands out its iterators from the front and in first
\* with one that pops them.
C26_BothIsTwoBlocks ==
    \A p \in Peers :
        (query.op \in ExploreOps /\ answer[p].ret = "Ok") =>
            LET a == answer[p]
                v == query.ids[1]
            IN  /\ ExploreCallsAndFlags(a, v, query.direction)
                /\ query.direction = "Both" =>
                      IF query.op = "explore_edge" /\ cluster.iter_list_from_back
                      THEN a.items \in InThenOut(v)
                      ELSE a.items \in OutThenIn(v)

\* What the store returned for the call an operation recorded.
StoreResult(call) ==
    IF call.fn = "get_all_vertices"
    THEN get_all_vertices(call.labels, call.condition, call.prop_ids, call.limit,
                          call.partitions)
    ELSE FromSrc(get_all_edges(call.labels, call.condition, call.prop_ids, call.limit,
                               call.partitions), TRUE)

\* The element has the value the filter asks for in every property it reads.
Satisfies(filter, item) ==
    \A i \in DOMAIN filter.props : PropValue(item.id, filter.props[i]) = 1

\* The conversion of the query's filter failed under push-down.
ConversionFailed ==
    cluster.row_filter_pushdown /\ query.params.filter.some /\ ~query.params.filter.conv

\* The pair returned for the query's filter is a condition with the flag
\* false, or no condition with the flag telling whether a filter is present.
EncodedOnce(enc) ==
    /\ ~enc.panic
    /\ \/ enc.condition.some /\ ~enc.not_pushdown
       \/ ~enc.condition.some /\ enc.not_pushdown = query.params.filter.some
    /\ enc.condition.some =>
          (cluster.row_filter_pushdown /\ enc.condition = Some(query.params.filter.props))

\* The peer's scan applied the query's filter once: in the store, through the
\* condition of the call, or in process, on what the store returned with no
\* condition; it applied nothing when there is no filter.
AppliedOnce(a) ==
    (a.ret = "Ok" /\ a.calls # <<>>) =>
        LET call == a.calls[1]
            f == query.params.filter
        IN  /\ \A i \in DOMAIN a.items : f.some => Satisfies(f, a.items[i])
            /\ IF call.condition.some
               THEN /\ f.some /\ call.condition = Some(f.props)
                    /\ a.items = sample_limit(StoreResult(call), query.params.sample_ratio,
                                              query.params.limit)
               ELSE a.items = filter_sample_limit(StoreResult(call), f,
                                                  query.params.sample_ratio,
                                                  query.params.limit)

\* The scan of a query whose filter failed to convert went on: Ok, the store
\* called with no condition, the filter applied in process.  (A column given
\* by name is another error, of the column push-down.)
Degraded(a) ==
    (ConversionFailed /\ a.ret # "Err") =>
        /\ a.ret = "Ok"
        /\ a.calls # <<>> => ~a.calls[1].condition.some

\* C27 as stated: for every filter, push-down setting and outcome of the
\* conversion, encode_storage_row_filter_condition returns a condition with
\* the in-process flag false or no condition with the flag equal to "filter is
\* present"; a scan applies a present filter exactly once; and a scan whose
\* filter fails to convert under push-down returns Ok, having called the
\* store with no condition and applied the filter in process.
C27_FilterAppliedOnce ==
    \A p \in Peers :
        (query.op \in {"scan_vertex", "scan_edge"} /\ answer[p] # NoAnswer) =>
            /\ EncodedOnce(encode_storage_row_filter_condition(
                               query.params.filter, cluster.row_filter_pushdown, cluster.debug))
            /\ AppliedOnce(answer[p])
            /\ Degraded(answer[p])


\* The query's parameters with the limit and the sampling taken away.
Unbounded(params) == WithSample([params EXCEPT !.limit = NoLimit], NoSample)

\* What the scan of the same kind gives the peer for the parameters.
ScanOf(p, params, h) ==
    IF query.op = "count_vertex" THEN scan_vertex(cluster, p, params, h)
    ELSE scan_edge(cluster, p, params, h)

\* What the count gives the peer for the parameters.
CountOf(p, params, h) ==
    IF query.op = "count_vertex" THEN count_vertex(cluster, p, params, h)
    ELSE count_edge(cluster, p, params, h)

\* C30: without a filter count_vertex / count_edge return what they return
\* with the limit and the sampling taken away, the count of the store over the
\* worker's partitions; with a filter and a limit L the count is at most L;
\* and with neither a limit nor a sampling the count is the number of items
\* the scan yields for the same parameters (where the scan yields any).
C30_CountIgnoresLimit ==
    \A p \in Peers :
        (query.op \in {"count_vertex", "count_edge"} /\ answer[p] # NoAnswer) =>
            LET ps == query.params
                a == answer[p]
                parts == assign_worker_partitions(cluster.server_partitions,
                                                  cluster.local_worker_num, p)
                n == IF query.op = "count_vertex" THEN count_all_vertices(ps.labels, parts)
                     ELSE count_all_edges(ps.labels, parts)
            IN  /\ ~ps.filter.some =>
                      /\ a.ret = "Ok"
                      /\ a.count = n
                      /\ \A h \in PropHashers : a = CountOf(p, Unbounded(ps), h)
                /\ (ps.filter.some /\ ps.limit.some /\ a.ret = "Ok") =>
                      a.count <= ps.limit.n
                /\ \A h \in PropHashers :
                      (~ps.limit.some /\ ~ps.sample_ratio.on /\ ScanOf(p, ps, h).ret = "Ok") =>
                          (a.ret = "Ok" /\ a.count = Len(ScanOf(p, ps, h).items))

\* A count of vertices without a filter, with a limit of 1 and a sampling
\* that keeps nothing: the store's count comes back whole, where the scan of
\* the same parameters yields no vertex.
C30_Witness ==
    \E p \in Peers :
        /\ query.op = "count_vertex"
        /\ ~query.params.filter.some
        /\ query.params.limit = Limit(1)
        /\ query.params.sample_ratio = Sample({})
        /\ answer[p].ret = "Ok" /\ answer[p].count >= 2
        /\ \A h \in PropHashers :
              ScanOf(p, query.params, h).ret = "Ok" /\ ScanOf(p, query.params, h).items = <<>>

\* ==== the properties of the worker's error and cancel paths ===============

\* C16: an execute() call whose task step fails returns Finished, hands the
\* error to the sink through on_error once, marks the span as error and ends
\* it, and changes neither the peer guard nor is_finished.
C16_ErrorPathOfExecute ==
    [][(CallEnds /\ last'.op = "execute" /\ last'.task_ret = "Err") =>
          /\ last'.path = "error"
          /\ last'.ret = "Finished"
          /\ ret'[last'.w] = "Finished"
          /\ last'.on_error = 1
          /\ span_status'[last'.w] = "Execution error"
          /\ span_ends' = [span_ends EXCEPT ![last'.w] = @ + 1]
          /\ peer_guard' = peer_guard
          /\ is_finished' = is_finished]_vars

\* The step of the second of two peers failed: the guard still counts both.
C16_Witness ==
    /\ last.op = "execute" /\ last.path = "error" /\ last.w = 1
    /\ last.df.step = "err"
    /\ total_peers = 2 /\ peer_guard = 2
    /\ ~is_finished[1] /\ span_ends[1] = 1

\* C17: a call takes the cancel path exactly when it calls check_cancel() and
\* that is true (a check_ready() of a finished worker that reads the guard as
\* zero returns before it calls it); such a call returns Finished, calls neither sink.on_error nor the task, sets the
\* cancel hook and, in execute(), marks the span canceled and ends it, and
\* changes nothing else.
C17_CancelIsNotAnError ==
    [][(calls' # calls \/ in_ready' # in_ready) =>
          /\ (last'.path = "cancel") <=> (CallsCheckCancel /\ check_cancel(last'.w))
          /\ (last'.path = "cancel") =>
                /\ last'.ret = "Finished"
                /\ last'.on_error = 0
                /\ last'.sched = <<>>
                /\ last'.task_ret = "none"
                /\ cancel_hook'
                /\ UNCHANGED <<task, is_finished, peer_guard, decs, zeros, resources,
                               keyed_resources, ambient, ambient_keyed, mem_log,
                               cancel_map, emitter, closed, pc, start, now>>
                /\ IF last'.op = "execute"
                   THEN /\ span_status' = [span_status EXCEPT ![last'.w] = "Job is canceled"]
                        /\ span_ends' = [span_ends EXCEPT ![last'.w] = @ + 1]
                   ELSE UNCHANGED <<span_status, span_ends>>]_vars

\* A check_ready() of a worker with a dataflow found the time limit passed
\* while the hook was not yet set, and set it.
C17_Witness ==
    /\ last.op = "check_ready" /\ last.path = "cancel"
    /\ ~last.hook /\ cancel_hook
    /\ task[last.w] = "Dataflow" /\ ~is_finished[last.w]
    /\ span_ends[last.w] = 0

\* C20: WorkerTask::execute on Empty returns Finished and calls nothing; on
\* Dataflow it calls sch.step first, returns Finished exactly when
\* check_finish holds and sch.close succeeded (close is called exactly when
\* check_finish holds, as the last call), NotReady when not finished and idle,
\* Ready when not finished and not idle, and the error of step, close or
\* is_idle instead of a state.
C20_WorkerTaskExecute ==
    (last.op = "execute" /\ last.task_ret # "none") =>
        LET d == last.df
            r == last.task_ret
            s == last.sched
            closeCalled == \E i \in DOMAIN s : s[i] = "close"
        IN  IF task[last.w] = "Empty" THEN r = "Finished" /\ s = <<>>
            ELSE /\ s # <<>> /\ s[1] = "step"
                 /\ r \in {"Finished", "NotReady", "Ready", "Err"}
                 /\ r = "Finished" <=> (d.step = "ok" /\ d.fin /\ d.close = "ok")
                 /\ closeCalled <=> (d.step = "ok" /\ d.fin)
                 /\ closeCalled => s[Len(s)] = "close"
                 /\ r = "NotReady" <=> (d.step = "ok" /\ ~d.fin /\ d.idle = "true")
                 /\ r = "Ready" <=> (d.step = "ok" /\ ~d.fin /\ d.idle = "false")
                 /\ r = "Err" <=> \/ d.step = "err"
                                  \/ d.step = "ok" /\ d.fin /\ d.close = "err"
                                  \/ d.step = "ok" /\ ~d.fin /\ d.idle = "err"

\* The dataflow had finished but closing the scheduler failed: the call
\* returned the error.
C20_Witness ==
    /\ last.op = "execute" /\ task[last.w] = "Dataflow"
    /\ last.df.fin /\ last.df.close = "err"
    /\ last.sched = <<"step", "check_finish", "close">>
    /\ last.task_ret = "Err"

\* ==== the properties of check_ready() and of the frame of the calls ========

\* C21: check_ready() returns Finished when the worker is finished and the
\* guard reads zero; otherwise, when cancelled, it sets the cancel hook and
\* returns Finished; otherwise, when the worker is not finished, it returns
\* what task.check_ready() gives (Finished for an empty task; for a dataflow
\* try_notify is called first, then NotReady when idle and Ready when not, and
\* an error of either goes to sink.on_error once and gives Finished);
\* otherwise, finished and not cancelled, it returns NotReady while the guard
\* is not zero (the guard is loaded again there, and a guard that has come to
\* zero since the first load gives Finished).  Each test is made on what the
\* call reads when it makes it.  Only the third case calls the task, only the
\* second touches the hook, and a finished worker is never given Ready.
C21_CheckReadyDecisionOrder ==
    [][/\ (CallBegins /\ last'.op \in {"check_ready", "in_check_ready"}) =>
             LET w == last'.w
                 c == last'
                 d == c.df
             IN  IF is_finished[w] /\ peer_guard = 0
                 THEN /\ c.ret = "Finished" /\ ret'[w] = "Finished"
                      /\ c.sched = <<>> /\ c.on_error = 0
                      /\ cancel_hook' = cancel_hook
                 ELSE IF is_finished[w]
                 THEN /\ GoesOn /\ ~IsCall(c)
                      /\ ret'[w] = ret[w]
                      /\ cancel_hook' = cancel_hook
                 ELSE IF check_cancel(w)
                 THEN /\ c.ret = "Finished" /\ ret'[w] = "Finished"
                      /\ c.sched = <<>> /\ c.on_error = 0
                      /\ cancel_hook'
                 ELSE /\ cancel_hook' = cancel_hook
                      /\ ret'[w] = c.ret
                      /\ IF task[w] = "Empty"
                         THEN c.ret = "Finished" /\ c.sched = <<>> /\ c.on_error = 0
                         ELSE /\ c.sched # <<>> /\ c.sched[1] = "try_notify"
                              /\ IF d.notify = "err" \/ d.idle = "err"
                                 THEN c.ret = "Finished" /\ c.on_error = 1
                                 ELSE /\ c.on_error = 0
                                      /\ c.ret = IF d.idle = "true" THEN "NotReady"
                                                 ELSE "Ready"
       /\ \A w \in Workers :
             ReadsCancel(w) =>
                 /\ is_finished[w] /\ last'.w = w
                 /\ last'.sched = <<>> /\ last'.on_error = 0
                 /\ IF check_cancel(w)
                    THEN /\ last'.ret = "Finished" /\ ret'[w] = "Finished"
                         /\ cancel_hook'
                         /\ in_ready'[w] = "no"
                    ELSE /\ ~IsCall(last') /\ ret'[w] = ret[w]
                         /\ cancel_hook' = cancel_hook
                         /\ in_ready'[w] = "guard"
       /\ \A w \in Workers :
             ReadsGuardAgain(w) =>
                 /\ is_finished[w] /\ last'.w = w /\ in_ready'[w] = "no"
                 /\ last'.ret = (IF peer_guard = 0 THEN "Finished" ELSE "NotReady")
                 /\ ret'[w] = last'.ret
                 /\ last'.sched = <<>> /\ last'.on_error = 0
                 /\ cancel_hook' = cancel_hook
       /\ (CallEnds /\ last'.op = "check_ready" /\ is_finished[last'.w]) =>
             last'.ret # "Ready"]_vars

\* A worker that finished while its peer had not is asked whether it is ready:
\* not cancelled, guard above zero, it is told NotReady.
C21_Witness ==
    /\ last.op = "check_ready" /\ last.ret = "NotReady"
    /\ is_finished[last.w] /\ peer_guard > 0 /\ ~cancel_hook
    /\ last.sched = <<>>

\* C22: an execute() call of a worker that is not cancelled, whose task step
\* returns Ready or NotReady, returns exactly that state and leaves the peer
\* guard, is_finished, the cancel hook and the span (its status and the number
\* of its end() calls) as they were.
C22_NonTerminalStateVerbatim ==
    [][(/\ CallEnds
        /\ last'.op = "execute"
        /\ in_step[last'.w]
        /\ last'.task_ret \in {"Ready", "NotReady"}) =>
          /\ last'.ret = last'.task_ret
          /\ ret'[last'.w] = last'.task_ret
          /\ last'.task_ret = WorkerTaskExecute(task[last'.w], last'.df)
          /\ last'.on_error = 0
          /\ UNCHANGED <<peer_guard, decs, zeros, is_finished, cancel_hook,
                         span_status, span_ends>>]_vars

\* The step of a dataflow that has work left returned Ready, and the call
\* returned Ready.
C22_Witness ==
    /\ last.op = "execute" /\ last.task_ret = "Ready" /\ last.ret = "Ready"
    /\ task[last.w] = "Dataflow" /\ ~is_finished[last.w]
    /\ ~last.hook /\ ~cancel_hook
    /\ span_ends[last.w] = 0 /\ peer_guard = total_peers

\* The elapsed time worker w reads has reached the time limit of the job.
TimedOut(w) == time_limit > 0 /\ now - start[w] >= time_limit

\* The first branch of check_ready(): the worker is finished and the guard
\* reads zero.
JobDone(c) == c.op = "check_ready" /\ is_finished[c.w] /\ peer_guard = 0

\* C23 as stated: without a time limit a call is cancelled only by the hook,
\* whatever the clock reads; with a time limit every execute() and
\* check_ready() that runs at an elapsed time at or past the limit returns
\* Finished and sets the hook (a check_ready() that has only loaded the guard
\* does so in its next step); and with the hook set every call of every peer
\* returns Finished, whatever its own elapsed time.
C23_TimeLimitPropagates ==
    [][/\ CallBegins =>
             /\ (time_limit = 0 /\ ~cancel_hook) =>
                   (last'.path # "cancel" /\ ~cancel_hook')
             /\ (TimedOut(last'.w) \/ cancel_hook) =>
                   \/ GoesOn
                   \/ (IsCall(last') /\ last'.ret = "Finished" /\ cancel_hook')
       /\ \A w \in Workers :
             ReadsCancel(w) =>
                 /\ (time_limit = 0 /\ ~cancel_hook) =>
                       (last'.path # "cancel" /\ ~cancel_hook')
                 /\ (TimedOut(w) \/ cancel_hook) =>
                       (IsCall(last') /\ last'.ret = "Finished" /\ cancel_hook')]_vars

\* C23 amended: as above, but a check_ready() of a finished worker that reads
\* the guard as zero at its first load returns Finished before it looks at the
\* clock, and leaves the hook as it was; one that read the guard as not zero
\* goes on to read the clock, and sets the hook when the limit has passed,
\* whatever the guard has come to since.
C23_TimeLimitPropagatesUnlessDone ==
    [][/\ CallBegins =>
             /\ (time_limit = 0 /\ ~cancel_hook) =>
                   (last'.path # "cancel" /\ ~cancel_hook')
             /\ (TimedOut(last'.w) \/ cancel_hook) =>
                   \/ GoesOn /\ cancel_hook' = cancel_hook
                   \/ /\ IsCall(last') /\ last'.ret = "Finished"
                      /\ cancel_hook' = (cancel_hook \/ ~JobDone(last'))
       /\ \A w \in Workers :
             ReadsCancel(w) =>
                 /\ (time_limit = 0 /\ ~cancel_hook) =>
                       (last'.path # "cancel" /\ ~cancel_hook')
                 /\ (TimedOut(w) \/ cancel_hook) =>
                       (IsCall(last') /\ last'.ret = "Finished" /\ cancel_hook')
       /\ \A w \in Workers : ReadsGuardAgain(w) => cancel_hook' = cancel_hook]_vars

\* The peer constructed first ran out of time and set the hook; the peer
\* constructed a millisecond later, still within its limit and with a
\* dataflow to run, is called and gets Finished.
C23_Witness ==
    /\ IsCall(last) /\ last.hook /\ last.ret = "Finished" /\ last.path = "cancel"
    /\ time_limit > 0 /\ now - start[last.w] < time_limit
    /\ task[last.w] = "Dataflow" /\ ~is_finished[last.w]
    /\ \E v \in Workers : v # last.w /\ TimedOut(v) /\ ret[v] = "Finished"

AllReturnedFinished == \A w \in Workers : ret[w] = "Finished"

\* C24: in a job without error or cancellation that the executor keeps
\* polling and whose dataflows all come to report check_finish, every peer
\* eventually returns Finished; a call returns Finished only as the execute()
\* that moves the guard from 1 to 0 or as a check_ready() of a finished worker
\* that reads the guard as zero; and no peer has returned Finished while the
\* task of another peer is unfinished.
C24_JobCompletion ==
    /\ [](\A w \in Workers : ret[w] = "Finished" =>
             (peer_guard = 0 /\ \A v \in Workers : is_finished[v]))
    /\ [][(IsCall(last') /\ last'.ret = "Finished") =>
             \/ /\ last'.op = "execute"
                /\ peer_guard = 1 /\ peer_guard' = 0
                /\ ~is_finished[last'.w] /\ is_finished'[last'.w]
             \/ /\ last'.op = "check_ready"
                /\ peer_guard = 0
                /\ is_finished[last'.w]]_vars
    /\ AllConstructed ~> AllReturnedFinished

\* Two peers with dataflows: the second finished last and got Finished from
\* execute(), the first then got Finished from check_ready().
C24_Witness ==
    /\ total_peers = 2 /\ AllReturnedFinished
    /\ task[0] = "Dataflow" /\ task[1] = "Dataflow"
    /\ last.op = "check_ready" /\ last.w = 0 /\ last.ret = "Finished"
    /\ peer_guard = 0 /\ decs[0] = 1 /\ decs[1] = 1

\* The worker's execute() ended on the error path.
Errored(w) == span_status[w] = "Execution error" /\ ret[w] = "Finished"

\* The last call was a check_ready() of a worker that had finished normally,
\* made while the cancel hook was unset.
FinishedPeerAsked == last.op = "check_ready" /\ is_finished[last.w] /\ ~last.hook

\* While the errored worker e is alive it has not decremented the guard, the
\* guard is above zero unless the job was cancelled, and a finished peer that
\* asks is told NotReady.
HeldByErrored(e) ==
    (Errored(e) /\ pc[e] = "live") =>
        /\ decs[e] = 0
        /\ ~cancel_hook => peer_guard > 0
        /\ FinishedPeerAsked => last.ret = "NotReady"

\* Once every peer that did not finish normally is an errored worker that has
\* been dropped, a finished peer that asks is told Finished.
ReleasedByDrop ==
    (/\ FinishedPeerAsked
     /\ \E e \in Workers : Errored(e)
     /\ \A v \in Workers : is_finished[v] \/ (Errored(v) /\ pc[v] = "dropped")) =>
        last.ret = "Finished"

\* C25: with the calls made in the executor's order, a peer whose execute()
\* ended on the error path never decrements the guard in a call, so that
\* while the hook is unset the guard stays above zero and the peers that
\* finished normally keep getting NotReady from check_ready(); they are
\* released when the errored worker is dropped.
C25_ErroredPeerReleasedByDrop ==
    conform => ((\A e \in Workers : HeldByErrored(e)) /\ ReleasedByDrop)

\* C28: a check_ready() call, on any of its paths, leaves the peer guard
\* (and the counts of its increments and decrements), is_finished and the
\* span as they were; a worker becomes finished, and is subtracted from the
\* guard, only in an execute() call of that worker.
C28_CheckReadyFrame ==
    [][/\ InCheckReady =>
             UNCHANGED <<peer_guard, incs, decs, zeros, is_finished, span_status, span_ends>>
       /\ \A w \in Workers :
             (is_finished'[w] # is_finished[w] \/ decs'[w] # decs[w]) =>
                 (last'.op = "execute" /\ last'.w = w /\ in_step[w])]_vars

\* The check_ready() of an unfinished worker with a dataflow failed in
\* try_notify: it returned Finished and called on_error, and the worker is
\* still unfinished, still counted in the guard, its span still open.
C28_Witness ==
    /\ last.op = "check_ready" /\ last.path = "error" /\ last.ret = "Finished"
    /\ last.df.notify = "err" /\ last.on_error = 1
    /\ task[last.w] = "Dataflow" /\ ~is_finished[last.w]
    /\ decs[last.w] = 0 /\ peer_guard = total_peers
    /\ span_ends[last.w] = 0 /\ span_status[last.w] = "Unset"

\* C29: dropping a worker leaves the peer guard as it was (no decrement is
\* made), removes the job's entry from the cancel map whatever the guard
\* reads, and calls remove_task on the memory accountant exactly when the
\* guard reads zero.
C29_DropLeavesGuard ==
    [][(pc' # pc /\ last'.op = "drop") =>
          /\ pc[last'.w] = "live" /\ pc'[last'.w] = "dropped"
          /\ UNCHANGED <<peer_guard, decs, incs, zeros, is_finished, cancel_hook>>
          /\ ~cancel_map'
          /\ mem_log' = IF peer_guard = 0 THEN Append(mem_log, "remove_task")
                        ELSE mem_log]_vars

\* A worker whose step failed is dropped while its peer, which was told
\* Ready, is still running: the guard still counts both, the cancel map has
\* lost the job's entry and the job is still registered with the accountant.
C29_Witness ==
    /\ last.op = "drop" /\ pc[last.w] = "dropped"
    /\ total_peers = 2 /\ peer_guard = 2
    /\ ~cancel_map
    /\ mem_log = <<"new_task">>
    /\ \E v \in Workers : pc[v] = "live" /\ ret[v] = "Ready" /\ ~is_finished[v]
\* ==== the properties of the variable parser ===============================

\* The position of the first splitter in s, 0 when there is none.
FirstSplitter(s) ==
    IF Contains(s, SPLITTER)
    THEN CHOOSE i \in DOMAIN s : s[i] = SPLITTER /\ \A j \in 1 .. (i - 1) : s[j] # SPLITTER
    ELSE 0

\* The text of s before its first splitter (all of s when there is none), and
\* the text after it.
Before(s) == IF FirstSplitter(s) = 0 THEN s ELSE SubSeq(s, 1, FirstSplitter(s) - 1)
After(s) == SubSeq(s, FirstSplitter(s) + 1, Len(s))

\* C19: for a string "@<tag>[.<property>]" the tag is the text before the
\* first '.': absent when empty, an integer id when it parses as i32, a name
\* otherwise; the property is absent when there is no '.', and otherwise is
\* the text between the first and the second '.', as the Id, Label, Len or All
\* key for "~id", "~label", "~len", "~all" and as a named key otherwise.
C19_StringToVariable ==
    (parsed.done /\ parsed.input # <<>> /\ Head(parsed.input) = VAR_PREFIX) =>
        LET body == Tail(parsed.input)
            tag == Before(body)
            property == Before(After(body))
            out == parsed.out
        IN  /\ ~out.panic
            /\ out.tag.kind = (IF tag = <<>> THEN "None"
                               ELSE IF ParseI32(tag).ok THEN "Id" ELSE "Name")
            /\ out.tag.kind = "Id" => out.tag.id = ParseI32(tag).v
            /\ out.tag.kind = "Name" => out.tag.name = tag
            /\ out.property.kind =
                  (IF ~Contains(body, SPLITTER) THEN "None"
                   ELSE IF property = ID_KEY THEN "Id"
                   ELSE IF property = LABEL_KEY THEN "Label"
                   ELSE IF property = LENGTH_KEY THEN "Len"
                   ELSE IF property = ALL_KEY THEN "All"
                   ELSE "Key")
            /\ out.property.kind = "Key" => out.property.name = property
            /\ body = <<>> => (out.tag = NoTag /\ out.property = NoProperty)

\* "@-1.~len.name": the tag is the integer -1, the property the Len key, and
\* the text after the second '.' is dropped.
C19_Witness ==
    /\ parsed.done
    /\ parsed.input = <<"@", "-", "1", ".">> \o LENGTH_KEY \o <<".", "n", "a", "m", "e">>
    /\ parsed.out = Variable(TagId(-1), PropertyItem("Len"))
====
